---- MODULE Spec2Model ----
(***************************************************************************)
(* Model of the AST-based package usage detector of DependencyShield       *)
(* (server/services/astAnalysis.ts): performASTAnalysis walks an ordered   *)
(* batch of source files, attributes imports and member calls to declared  *)
(* dependencies, and derives a migration risk per package.                 *)
(*                                                                         *)
(* JavaScript strings that the code inspects character by character        *)
(* (module specifiers, identifiers, package names, file names) are         *)
(* sequences of one-character strings; texts that are only stored (import  *)
(* text, call text) are TLA+ strings.                                      *)
(***************************************************************************)
EXTENDS Integers, Sequences, FiniteSets, TLC

\* ---------------------------------------------------------------- bounds
MaxFiles == 3
MaxSpecifierLen == 6
MaxDeps == 2
MaxCalls == 11

\* ------------------------------------------------------------ JS values
\* null / undefined of a string-valued expression (no string contains this
\* pseudo character)
Null == <<"<null>">>

\* names every plain object inherits from Object.prototype: obj[name] is a
\* truthy function although name is not an own key
ObjectPrototypeNames == { <<"c","o","n","s","t","r","u","c","t","o","r">> }

s_lodash == <<"l","o","d","a","s","h">>
s_axios == <<"a","x","i","o","s">>
s_jquery == <<"j","q","u","e","r","y">>
s_react == <<"r","e","a","c","t">>
s_vue == <<"v","u","e">>
s_moment == <<"m","o","m","e","n","t">>
s_express == <<"e","x","p","r","e","s","s">>
s_constructor == <<"c","o","n","s","t","r","u","c","t","o","r">>
s_lodash_fp == <<"l","o","d","a","s","h","/","f","p">>
s_utils == <<".","/","u","t","i","l","s">>
s_merge == <<"m","e","r","g","e">>
s_get == <<"g","e","t">>
s_chain == <<"c","h","a","i","n">>
s_foo == <<"f","o","o">>
s_app == <<"a","p","p">>
s_require == <<"r","e","q","u","i","r","e">>
s_unknown == <<"u","n","k","n","o","w","n">>

UpperChars == <<"A","B","C","D","E","F","G","H","I","J","K","L","M",
                "N","O","P","Q","R","S","T","U","V","W","X","Y","Z">>
LowerChars == <<"a","b","c","d","e","f","g","h","i","j","k","l","m",
                "n","o","p","q","r","s","t","u","v","w","x","y","z">>

\* String.prototype.toLowerCase
toLowerCase(s) ==
    [i \in 1..Len(s) |->
        IF \E k \in 1..Len(UpperChars) : UpperChars[k] = s[i]
        THEN LowerChars[CHOOSE k \in 1..Len(UpperChars) : UpperChars[k] = s[i]]
        ELSE s[i]]

\* s.replace(/[-_]/g, '')
removeDashUnderscore(s) == SelectSeq(s, LAMBDA c : c \notin {"-", "_"})

\* s.startsWith(c) for a one-character prefix
startsWith(s, c) == Len(s) >= 1 /\ s[1] = c

\* s.split('/'): the segments between separators, empty segments kept
RECURSIVE splitFrom(_, _, _)
splitFrom(s, i, cur) ==
    IF i > Len(s) THEN <<cur>>
    ELSE IF s[i] = "/" THEN <<cur>> \o splitFrom(s, i + 1, <<>>)
    ELSE splitFrom(s, i + 1, Append(cur, s[i]))

split(s) == splitFrom(s, 1, <<>>)

\* ------------------------------------------------ extractPackageName
\* variant: the scope of a scoped package is taken for the package
extractPackageName_FirstSegment(importPath) ==
    IF startsWith(importPath, ".") \/ startsWith(importPath, "/") THEN Null
    ELSE split(importPath)[1]

extractPackageName(importPath) ==
    IF startsWith(importPath, ".") \/ startsWith(importPath, "/") THEN Null
    ELSE IF startsWith(importPath, "@")
         THEN LET parts == split(importPath)
              IN  IF Len(parts) >= 2 THEN parts[1] \o <<"/">> \o parts[2]
                  ELSE parts[1]
         ELSE split(importPath)[1]

\* ------------------------------------------------------ dependencies
\* The DependencySet is a JS object: an insertion-ordered sequence of
\* [name, range] pairs with unique names.
DepKeys(deps) == [i \in 1..Len(deps) |-> deps[i].name]        \* Object.keys
DepKeySet(deps) == { deps[i].name : i \in 1..Len(deps) }

\* truthiness of dependencies[name]: an own key with a non-empty range, or
\* a name inherited from Object.prototype
DepTruthy(deps, name) ==
    \/ \E i \in 1..Len(deps) : deps[i].name = name /\ deps[i].range # ""
    \/ (name \notin DepKeySet(deps) /\ name \in ObjectPrototypeNames)

\* variant: only the null check, the lookup in dependencies forgotten
IsTrackedImport_NullCheckOnly(deps, packageName) ==
    packageName # Null /\ packageName # <<>>

\* `packageName && dependencies[packageName]`
IsTrackedImport(deps, packageName) ==
    packageName # Null /\ packageName # <<>> /\ DepTruthy(deps, packageName)

\* ------------------------------------------- findPackageFromIdentifier
commonMappings ==
    << [id |-> <<"_">>, pkg |-> s_lodash],
       [id |-> <<"$">>, pkg |-> s_jquery],
       [id |-> <<"R","e","a","c","t">>, pkg |-> s_react],
       [id |-> <<"V","u","e">>, pkg |-> s_vue],
       [id |-> s_axios, pkg |-> s_axios],
       [id |-> s_moment, pkg |-> s_moment] >>

\* commonMappings[identifier]; an identifier that is only an inherited
\* name gives a function, under which dependencies has no key
commonMapping(identifier) ==
    IF \E k \in 1..Len(commonMappings) : commonMappings[k].id = identifier
    THEN commonMappings[CHOOSE k \in 1..Len(commonMappings) :
                            commonMappings[k].id = identifier].pkg
    ELSE Null

nameMatches(dep, identifier) ==
    \/ toLowerCase(dep) = toLowerCase(identifier)
    \/ toLowerCase(removeDashUnderscore(dep)) =
           toLowerCase(removeDashUnderscore(identifier))

\* Object.keys(dependencies).find(...) || null
findMatchingDep(identifier, deps) ==
    LET keys == DepKeys(deps)
        hits == { i \in 1..Len(keys) : nameMatches(keys[i], identifier) }
    IN  IF hits = {} THEN Null
        ELSE LET first == CHOOSE i \in hits : \A j \in hits : i <= j
             IN  IF keys[first] = <<>> THEN Null ELSE keys[first]

findPackageFromIdentifier(identifier, deps) ==
    IF commonMapping(identifier) # Null /\ DepTruthy(deps, commonMapping(identifier))
    THEN commonMapping(identifier)
    ELSE findMatchingDep(identifier, deps)

\* ---------------------------------------------------- receiver of a call
\* Babel: getObjectName walks member accesses down to the base identifier
RECURSIVE getObjectName(_)
getObjectName(node) ==
    IF node.type = "Identifier" THEN node.name
    ELSE IF node.type = "MemberExpression" THEN getObjectName(node.object)
    ELSE <<>>

\* ts-morph: expression.getExpression().getText() is the source text of the
\* whole receiver expression
RECURSIVE getText(_)
getText(node) ==
    IF node.type = "Identifier" THEN node.name
    ELSE IF node.type = "MemberExpression"
         THEN getText(node.object) \o <<".">> \o node.property
    ELSE <<"t","h","i","s">>

\* --------------------------------------------- calculateMigrationRisk
RiskLowMax == 5
RiskMediumMax == 15

\* risk = usageNodes.length * 1 + exportedSymbols.length * 2
\*        + complexityScore * 0.5, kept doubled to stay in the integers
riskTimes2(usage) ==
    2 * Len(usage.usageNodes) + 4 * Len(usage.exportedSymbols) + usage.complexityScore

\* variant: only the usage snippets count
calculateMigrationRisk_SnippetsOnly(usage) ==
    IF Len(usage.usageNodes) <= RiskLowMax THEN "low"
    ELSE IF Len(usage.usageNodes) <= RiskMediumMax THEN "medium"
    ELSE "high"

calculateMigrationRisk(usage) ==
    IF riskTimes2(usage) <= 2 * RiskLowMax THEN "low"
    ELSE IF riskTimes2(usage) <= 2 * RiskMediumMax THEN "medium"
    ELSE "high"

\* ------------------------------------------------------------ syntax
\* Nodes of a parsed file, in source order.  Field names follow Babel.
Ident(name) == [type |-> "Identifier", name |-> name]
Member(object, property) ==
    [type |-> "MemberExpression", object |-> object, property |-> property]
This == [type |-> "ThisExpression"]
ImportSpecifier(imported, local) ==
    [type |-> "ImportSpecifier", imported |-> imported, local |-> local]
ImportDefaultSpecifier(local) ==
    [type |-> "ImportDefaultSpecifier", imported |-> <<>>, local |-> local]
ImportDeclaration(source, specifiers, text, line) ==
    [type |-> "ImportDeclaration", source |-> source, specifiers |-> specifiers,
     text |-> text, line |-> line]
\* arguments: the string-literal arguments; binds: the names the enclosing
\* declarator binds to the call's value (const _ = require('lodash'))
CallExpression(callee, arguments, binds, text, line) ==
    [type |-> "CallExpression", callee |-> callee, arguments |-> arguments,
     binds |-> binds, text |-> text, line |-> line]
FunctionDeclaration == [type |-> "FunctionDeclaration"]
ClassDeclaration == [type |-> "ClassDeclaration"]

\* const _ = require('lodash'); _.merge(a, b); _.get(a, 'x');
body_scenario ==
    << CallExpression(Ident(s_require), <<s_lodash>>, << <<"_">> >>,
                      "require('lodash')", 1),
       CallExpression(Member(Ident(<<"_">>), s_merge), <<>>, <<>>, "_.merge(a, b)", 2),
       CallExpression(Member(Ident(<<"_">>), s_get), <<>>, <<>>, "_.get(a, 'x')", 3) >>

\* import { merge } from 'lodash/fp'; import u from './utils'; function f() {}
body_import ==
    << ImportDeclaration(s_lodash_fp, <<ImportSpecifier(s_merge, s_merge)>>,
                         "import { merge } from 'lodash/fp'", 1),
       ImportDeclaration(s_utils, <<ImportDefaultSpecifier(<<"u">>)>>,
                         "import u from './utils'", 2),
       FunctionDeclaration >>

\* import foo from 'lodash'; foo.merge(a); class K {}
body_binding ==
    << ImportDeclaration(s_lodash, <<ImportDefaultSpecifier(s_foo)>>,
                         "import foo from 'lodash'", 1),
       CallExpression(Member(Ident(s_foo), s_merge), <<>>, <<>>, "foo.merge(a)", 2),
       ClassDeclaration >>

\* function h() {}; _.chain.get(a); this.app.get('/');
\* import express from 'express'
body_chain ==
    << FunctionDeclaration,
       CallExpression(Member(Member(Ident(<<"_">>), s_chain), s_get), <<>>, <<>>,
                      "_.chain.get(a)", 1),
       CallExpression(Member(Member(This, s_app), s_get), <<>>, <<>>,
                      "this.app.get('/')", 2),
       ImportDeclaration(s_express, <<ImportDefaultSpecifier(s_express)>>,
                         "import express from 'express'", 3) >>

\* import { get } from 'lodash'; axios.get(u); import c from 'constructor'
body_throw ==
    << ImportDeclaration(s_lodash, <<ImportSpecifier(s_get, s_get)>>,
                         "import { get } from 'lodash'", 1),
       CallExpression(Member(Ident(s_axios), s_get), <<>>, <<>>, "axios.get(u)", 2),
       ImportDeclaration(s_constructor, <<ImportDefaultSpecifier(<<"c">>)>>,
                         "import c from 'constructor'", 3) >>

\* import _ from 'lodash'; _.merge(a  <- unbalanced: a syntax error.  nodes is
\* what an error-tolerant parser would recover; @babel/parser throws instead.
body_invalid ==
    << ImportDeclaration(s_lodash, <<ImportDefaultSpecifier(<<"_">>)>>,
                         "import _ from 'lodash'", 1),
       CallExpression(Member(Ident(<<"_">>), s_merge), <<>>, <<>>, "_.merge(a", 2) >>

SourceFile(name, valid, nodes) == [name |-> name, valid |-> valid, nodes |-> nodes]

ext_ts == <<".","t","s">>
ext_tsx == <<".","t","s","x">>
ext_js == <<".","j","s">>

SourceFileUniverse ==
    { SourceFile(<<"a">> \o ext_js, TRUE, body_scenario),
      SourceFile(<<"b">> \o ext_ts, TRUE, body_import),
      SourceFile(<<"c">> \o ext_js, TRUE, body_binding),
      SourceFile(<<"d">> \o ext_tsx, TRUE, body_chain),
      SourceFile(<<"d">> \o ext_js, TRUE, body_chain),
      SourceFile(<<"e">> \o ext_ts, TRUE, body_throw),
      SourceFile(<<"e">> \o ext_js, TRUE, body_throw),
      SourceFile(<<"f">> \o ext_js, FALSE, body_invalid) }

Dep(name, range) == [name |-> name, range |-> range]

DependencyUniverse ==
    { << Dep(s_lodash, "4.17.19") >>,
      << Dep(s_lodash, "4.17.19"), Dep(s_axios, "1.6.0") >>,
      << >>,
      << Dep(s_express, "4.18.2"), Dep(s_lodash, "") >> }

Batches == UNION { [1..n -> SourceFileUniverse] : n \in 0..MaxFiles }

\* file.name.endsWith(suffix)
endsWith(s, suffix) ==
    Len(s) >= Len(suffix) /\ SubSeq(s, Len(s) - Len(suffix) + 1, Len(s)) = suffix

IsTypeScriptFile(file) == endsWith(file.name, ext_ts) \/ endsWith(file.name, ext_tsx)

\* variant: the parser recovers from every syntax error
parseThrows_Never(file) == FALSE

\* parse(file.content, {...}) of @babel/parser throws a SyntaxError on a text
\* that is not a program of the enabled grammar
parseThrows(file) == ~file.valid

\* ------------------------------------------------------------- state
VARIABLES
    sourceFiles,       \* the batch handed to performASTAnalysis
    dependencies,      \* the DependencySet handed to performASTAnalysis
    project,           \* paths of the source files created in the ts-morph Project
    packageUsage,      \* package name -> PackageUsageRecord
    codeMetrics,
    dependencyGraph,
    pc,                \* position in performASTAnalysis / the file analyser
    fileIdx,           \* index of the file the for-loop is at
    nodeIdx,           \* index of the next import / node of the current file
    fileUsageTracker,  \* function-scope tracker (TS line 112, JS line 208)
    blockTracker,      \* the tracker declared inside the JS try block (line 253)
    consoleErrors,     \* file names passed to console.error
    result,            \* the returned ASTAnalysisResult, Null before return
    input,             \* arguments of a helper called on its own, or the
                       \* number of the call in a sequence of calls
    output,            \* what that call, or the call before, returned
    usedPackages,      \* analyzeCodeUsage: the Set of packages seen in an import
    storage,           \* the MemStorage object exported by server/storage.ts
    zipfile,           \* extractZipFile: the yauzl ZipFile, Null before it is opened
    packageJsonContent,\* extractZipFile: content of the package.json entry
    promise            \* extractZipFile: the returned promise and its settlements

vars == << sourceFiles, dependencies, project, packageUsage, codeMetrics,
           dependencyGraph, pc, fileIdx, nodeIdx, fileUsageTracker,
           blockTracker, consoleErrors, result, input, output,
           usedPackages, storage, zipfile, packageJsonContent, promise >>

\* the state of the other modules of the server
otherVars == << usedPackages, storage, zipfile, packageJsonContent, promise >>

UsageExamplesCap == 10

EmptyObject == [k \in {} |-> {}]

\* MemStorage constructor (`export const storage = new MemStorage()`)
NewMemStorage ==
    [users |-> EmptyObject,
     analysisResults |-> EmptyObject,
     analysisResultsBySession |-> EmptyObject,
     currentUserId |-> 1,
     currentAnalysisId |-> 1]

\* no analyzeCodeUsage and no extractZipFile call is under way, the store
\* is as constructed
OthersAtRest ==
    /\ usedPackages = {}
    /\ storage = NewMemStorage
    /\ zipfile = Null
    /\ packageJsonContent = Null
    /\ promise = Null

EmptyUsage ==
    [importNodes |-> <<>>, usageNodes |-> <<>>, exportedSymbols |-> <<>>,
     complexityScore |-> 0, migrationRisk |-> "low", fileUsage |-> <<>>]

EmptyTrackerEntry ==
    [importStatements |-> <<>>, usageExamples |-> <<>>, lineNumbers |-> <<>>]

\* obj[key] = value on a plain object
Put(obj, key, value) ==
    [k \in (DOMAIN obj) \cup {key} |-> IF k = key THEN value ELSE obj[k]]

\* truthiness of obj[key]: an own key (all stored values are objects) or a
\* name inherited from Object.prototype
Truthy(obj, key) == key \in DOMAIN obj \/ key \in ObjectPrototypeNames

\* if (!obj[key]) obj[key] = empty
Ensure(obj, key, empty) == IF Truthy(obj, key) THEN obj ELSE Put(obj, key, empty)

\* variant: records are created on first use only
InitPackageUsage_Lazy(deps) == EmptyObject

\* Object.keys(dependencies).forEach(dep => packageUsage[dep] = {...})
InitPackageUsage(deps) == [k \in DepKeySet(deps) |-> EmptyUsage]

\* variant: every JavaScript file starts from empty records
EnsureAll_Reset(pu, keys, i) ==
    [k \in (DOMAIN pu) \cup { keys[j] : j \in 1..Len(keys) } |-> EmptyUsage]

\* Object.keys(dependencies).forEach(pkg => if (!packageUsage[pkg]) ...)
RECURSIVE EnsureAll(_, _, _)
EnsureAll(pu, keys, i) ==
    IF i > Len(keys) THEN pu ELSE EnsureAll(Ensure(pu, keys[i], EmptyUsage), keys, i + 1)

\* names pushed by the specifier loop of an import declaration: the named
\* imports (ts-morph getNamedImports / Babel ImportSpecifier)
NamedImports(node) ==
    LET named == SelectSeq(node.specifiers, LAMBDA sp : sp.type = "ImportSpecifier")
    IN  [i \in 1..Len(named) |-> named[i].imported]

\* body of the import handlers once `packageName && dependencies[packageName]`
\* held and packageUsage[packageName] is an own record
RecordImport(pu, tr, packageName, node) ==
    LET tr1 == Ensure(tr, packageName, EmptyTrackerEntry)
    IN  [pu |-> [pu EXCEPT ![packageName].importNodes = Append(@, node.text),
                           ![packageName].exportedSymbols = @ \o NamedImports(node)],
         tr |-> [tr1 EXCEPT ![packageName].importStatements = Append(@, node.text),
                            ![packageName].lineNumbers = Append(@, node.line)],
         threw |-> FALSE]

\* variant: a call weighs two
addComplexity_Two(score) == score + 2

\* packageUsage[packageName].complexityScore += 1
addComplexity(score) == score + 1

\* variant: the newest snippet is put first
RecordCall_Unshift(pu, tr, packageName, methodName, node) ==
    LET tr1 == Ensure(tr, packageName, EmptyTrackerEntry)
    IN  [pu |-> [pu EXCEPT ![packageName].usageNodes = <<node.text>> \o @,
                           ![packageName].complexityScore = @ + 1,
                           ![packageName].exportedSymbols = Append(@, methodName)],
         tr |-> [tr1 EXCEPT ![packageName].usageExamples = Append(@, node.text),
                            ![packageName].lineNumbers = Append(@, node.line)],
         threw |-> FALSE]

\* body of the call handlers once a package name was found and
\* packageUsage[packageName] is an own record
RecordCall(pu, tr, packageName, methodName, node) ==
    LET tr1 == Ensure(tr, packageName, EmptyTrackerEntry)
        has == \E i \in 1..Len(pu[packageName].exportedSymbols) :
                   pu[packageName].exportedSymbols[i] = methodName
    IN  [pu |-> [pu EXCEPT ![packageName].usageNodes = Append(@, node.text),
                           ![packageName].complexityScore = addComplexity(@),
                           ![packageName].exportedSymbols =
                               IF has THEN @ ELSE Append(@, methodName)],
         tr |-> [tr1 EXCEPT ![packageName].usageExamples = Append(@, node.text),
                            ![packageName].lineNumbers = Append(@, node.line)],
         threw |-> FALSE]

Unchanged(pu, tr) == [pu |-> pu, tr |-> tr, threw |-> FALSE]
\* reading .importNodes / .usageNodes of an inherited function gives
\* undefined, and .push on it throws a TypeError
Throws(pu, tr) == [pu |-> pu, tr |-> tr, threw |-> TRUE]

\* analyzeTypeScriptFile, getImportDeclarations().forEach callback
\* (without the totalImports++)
tsImportDeclaration(pu, tr, deps, node) ==
    LET packageName == extractPackageName(node.source)
    IN  IF ~IsTrackedImport(deps, packageName) THEN Unchanged(pu, tr)
        ELSE IF packageName \notin DOMAIN pu THEN Throws(pu, tr)
        ELSE RecordImport(pu, tr, packageName, node)

\* Node.isCallExpression(node) && Node.isPropertyAccessExpression(expression)
IsMemberCall(node) ==
    node.type = "CallExpression" /\ node.callee.type = "MemberExpression"

\* `if (packageName)`
IsFound(packageName) == packageName # Null /\ packageName # <<>>

\* analyzeTypeScriptFile, forEachDescendant callback
tsDescendant(pu, tr, deps, node) ==
    IF ~IsMemberCall(node) THEN Unchanged(pu, tr)
    ELSE LET objectText == getText(node.callee.object)
             methodName == node.callee.property
             packageName == findPackageFromIdentifier(objectText, deps)
         IN  IF ~IsFound(packageName) THEN Unchanged(pu, tr)
             ELSE IF packageName \notin DOMAIN pu THEN Throws(pu, tr)
             ELSE RecordCall(pu, tr, packageName, methodName, node)

\* analyzeJavaScriptFile, ImportDeclaration visitor (without totalImports++)
jsImportDeclaration(pu, tr, deps, node) ==
    LET packageName == extractPackageName(node.source)
    IN  IF ~IsTrackedImport(deps, packageName) THEN Unchanged(pu, tr)
        ELSE LET pu1 == Ensure(pu, packageName, EmptyUsage)
             IN  IF packageName \notin DOMAIN pu1 THEN Throws(pu1, tr)
                 ELSE RecordImport(pu1, tr, packageName, node)

\* path.node.callee.property?.name || 'unknown'
jsMethodName(callee) == IF callee.property = <<>> THEN s_unknown ELSE callee.property

\* analyzeJavaScriptFile, CallExpression visitor
jsCallExpression(pu, tr, deps, node) ==
    IF ~IsMemberCall(node) THEN Unchanged(pu, tr)
    ELSE LET objectName == getObjectName(node.callee.object)
             packageName == findPackageFromIdentifier(objectName, deps)
         IN  IF ~IsFound(packageName) THEN Unchanged(pu, tr)
             ELSE LET pu1 == Ensure(pu, packageName, EmptyUsage)
                  IN  IF packageName \notin DOMAIN pu1 THEN Throws(pu1, tr)
                      ELSE RecordCall(pu1, tr, packageName,
                                      jsMethodName(node.callee), node)

\* variant: the examples are copied whole
slice0_Whole(seq, n) == seq

\* usage.usageExamples.slice(0, 10)
slice0(seq, n) == SubSeq(seq, 1, IF Len(seq) < n THEN Len(seq) ELSE n)

\* variant: an entry is pushed for every record, not only for the packages
\* the tracker holds
addFileUsage_EveryRecord(pu, tr, fileName) ==
    [k \in DOMAIN pu |->
        LET e == IF k \in DOMAIN tr THEN tr[k] ELSE EmptyTrackerEntry
        IN  [pu[k] EXCEPT !.fileUsage =
                Append(@, [fileName |-> fileName,
                           importStatements |-> e.importStatements,
                           usageExamples |-> e.usageExamples,
                           lineNumbers |-> e.lineNumbers])]]

\* Object.keys(tracker).forEach(packageName => if (packageUsage[packageName])
\*     packageUsage[packageName].fileUsage.push({...}))
addFileUsage(pu, tr, fileName) ==
    [k \in DOMAIN pu |->
        IF k \in DOMAIN tr
        THEN [pu[k] EXCEPT !.fileUsage =
                 Append(@, [fileName |-> fileName,
                            importStatements |-> tr[k].importStatements,
                            usageExamples |-> slice0(tr[k].usageExamples, UsageExamplesCap),
                            lineNumbers |-> tr[k].lineNumbers])]
        ELSE pu[k]]

\* variant: import declarations are not counted
countImport_Skip(cm) == cm

\* codeMetrics.totalImports++
countImport(cm) == [cm EXCEPT !.totalImports = @ + 1]

\* ----------------------------------------------------------- actions
CurrentFile == sourceFiles[fileIdx]

Count(nodes, type) == Len(SelectSeq(nodes, LAMBDA n : n.type = type))

\* variant: every function adds a path to a complexity measure
countDeclarations_WithComplexity(cm, nodes) ==
    [cm EXCEPT !.totalFunctions = @ + Count(nodes, "FunctionDeclaration"),
               !.totalClasses = @ + Count(nodes, "ClassDeclaration"),
               !.cyclomaticComplexity = @ + Count(nodes, "FunctionDeclaration")]

\* codeMetrics.totalFunctions += sourceFile.getFunctions().length;
\* codeMetrics.totalClasses += sourceFile.getClasses().length
countDeclarations(cm, nodes) ==
    [cm EXCEPT !.totalFunctions = @ + Count(nodes, "FunctionDeclaration"),
               !.totalClasses = @ + Count(nodes, "ClassDeclaration")]

\* sourceFile.getImportDeclarations()
getImportDeclarations(file) ==
    SelectSeq(file.nodes, LAMBDA n : n.type = "ImportDeclaration")

\* variant: one Project object serves every call
NewProject_Reused(previous) == previous

\* new Project({ useInMemoryFileSystem: true, ... }): a project over a file
\* system of its own, holding no source file of any earlier project
NewProject(previous) == {}

\* the state of a call of performASTAnalysis before its first file
InitAnalysis ==
    /\ OthersAtRest
    /\ sourceFiles \in Batches
    /\ dependencies \in DependencyUniverse
    /\ project = NewProject({})
    /\ packageUsage = InitPackageUsage(dependencies)
    /\ codeMetrics = [totalFunctions |-> 0, totalClasses |-> 0,
                      totalImports |-> 0, cyclomaticComplexity |-> 0]
    /\ dependencyGraph = EmptyObject
    /\ pc = "loop"
    /\ fileIdx = 1
    /\ nodeIdx = 1
    /\ fileUsageTracker = EmptyObject
    /\ blockTracker = EmptyObject
    /\ consoleErrors = <<>>
    /\ result = EmptyObject

Init ==
    /\ InitAnalysis
    /\ input = Null
    /\ output = Null

\* catch (error) { console.error(`Failed to analyze ${file.name}:`, error) }
\* of the for-loop, then the next iteration
CatchInLoop ==
    /\ consoleErrors' = Append(consoleErrors, CurrentFile.name)
    /\ fileIdx' = fileIdx + 1
    /\ nodeIdx' = nodeIdx
    /\ pc' = "loop"

\* for-loop, .ts/.tsx branch: project.createSourceFile, then the head of
\* analyzeTypeScriptFile (tracker, function and class counts)
CreateSourceFile ==
    /\ pc = "loop" /\ fileIdx <= Len(sourceFiles)
    /\ IsTypeScriptFile(CurrentFile)
    /\ IF CurrentFile.name \in project
       THEN /\ CatchInLoop
            /\ UNCHANGED << project, codeMetrics, fileUsageTracker >>
       ELSE /\ project' = project \cup {CurrentFile.name}
            /\ fileUsageTracker' = EmptyObject
            /\ codeMetrics' = countDeclarations(codeMetrics, CurrentFile.nodes)
            /\ nodeIdx' = 1
            /\ pc' = IF getImportDeclarations(CurrentFile) # <<>> THEN "ts_imports"
                     ELSE IF CurrentFile.nodes # <<>> THEN "ts_walk"
                     ELSE "ts_flush"
            /\ UNCHANGED << fileIdx, consoleErrors >>
    /\ UNCHANGED << otherVars, input, output, sourceFiles, dependencies, packageUsage, dependencyGraph,
                    blockTracker, result >>

\* one callback of sourceFile.getImportDeclarations().forEach
TSImportDeclaration ==
    /\ pc = "ts_imports"
    /\ LET imports == getImportDeclarations(CurrentFile)
           r == tsImportDeclaration(packageUsage, fileUsageTracker, dependencies,
                                    imports[nodeIdx])
       IN  /\ codeMetrics' = countImport(codeMetrics)
           /\ packageUsage' = r.pu
           /\ fileUsageTracker' = r.tr
           /\ IF r.threw
              THEN CatchInLoop
              ELSE /\ IF nodeIdx < Len(imports)
                      THEN nodeIdx' = nodeIdx + 1 /\ pc' = "ts_imports"
                      ELSE nodeIdx' = 1 /\ pc' = "ts_walk"
                   /\ UNCHANGED << fileIdx, consoleErrors >>
    /\ UNCHANGED << otherVars, input, output, sourceFiles, dependencies, project, dependencyGraph,
                    blockTracker, result >>

\* one callback of sourceFile.forEachDescendant
TSForEachDescendant ==
    /\ pc = "ts_walk"
    /\ LET r == tsDescendant(packageUsage, fileUsageTracker, dependencies,
                             CurrentFile.nodes[nodeIdx])
       IN  /\ packageUsage' = r.pu
           /\ fileUsageTracker' = r.tr
           /\ IF r.threw
              THEN CatchInLoop
              ELSE /\ IF nodeIdx < Len(CurrentFile.nodes)
                      THEN nodeIdx' = nodeIdx + 1 /\ pc' = "ts_walk"
                      ELSE nodeIdx' = 1 /\ pc' = "ts_flush"
                   /\ UNCHANGED << fileIdx, consoleErrors >>
    /\ UNCHANGED << otherVars, input, output, sourceFiles, dependencies, project, codeMetrics,
                    dependencyGraph, blockTracker, result >>

\* the closing Object.keys(fileUsageTracker).forEach of analyzeTypeScriptFile
TSFileUsage ==
    /\ pc = "ts_flush"
    /\ packageUsage' = addFileUsage(packageUsage, fileUsageTracker, CurrentFile.name)
    /\ fileIdx' = fileIdx + 1
    /\ pc' = "loop"
    /\ UNCHANGED << otherVars, input, output, sourceFiles, dependencies, project, codeMetrics,
                    dependencyGraph, nodeIdx, fileUsageTracker, blockTracker,
                    consoleErrors, result >>

\* traverse.default || traverse is a function in every build that resolves
\* @babel/traverse
babelTraverseIsFunction == TRUE

\* variant: the parse error escapes analyzeJavaScriptFile and ends the loop
CatchInJavaScriptFile_Abort ==
    /\ consoleErrors' = Append(consoleErrors, CurrentFile.name)
    /\ fileIdx' = Len(sourceFiles) + 1
    /\ nodeIdx' = nodeIdx
    /\ pc' = "js_flush"

\* catch (error) { console.error(`Error parsing JavaScript file ...`) } inside
\* analyzeJavaScriptFile; control continues at the closing forEach
CatchInJavaScriptFile ==
    /\ consoleErrors' = Append(consoleErrors, CurrentFile.name)
    /\ fileIdx' = fileIdx
    /\ nodeIdx' = nodeIdx
    /\ pc' = "js_flush"

\* for-loop, else branch: head of analyzeJavaScriptFile up to the traversal:
\* the function-scope tracker, parse(), record initialisation, block tracker
ParseJavaScript ==
    /\ pc = "loop" /\ fileIdx <= Len(sourceFiles)
    /\ ~IsTypeScriptFile(CurrentFile)
    /\ fileUsageTracker' = EmptyObject
    /\ IF parseThrows(CurrentFile)
       THEN /\ CatchInJavaScriptFile
            /\ UNCHANGED << packageUsage, blockTracker >>
       ELSE IF ~babelTraverseIsFunction
       THEN /\ fileIdx' = fileIdx + 1
            /\ UNCHANGED << packageUsage, blockTracker, nodeIdx, pc, consoleErrors >>
       ELSE /\ packageUsage' = EnsureAll(packageUsage, DepKeys(dependencies), 1)
            /\ blockTracker' = EmptyObject
            /\ nodeIdx' = 1
            /\ pc' = IF CurrentFile.nodes # <<>> THEN "js_walk" ELSE "js_flush"
            /\ UNCHANGED << consoleErrors, fileIdx >>
    /\ UNCHANGED << otherVars, input, output, sourceFiles, dependencies, project, codeMetrics,
                    dependencyGraph, result >>

\* what follows a visitor call: the next node, the end of the traversal, or
\* the catch clause
JSAfterVisit(threw) ==
    IF threw
    THEN CatchInJavaScriptFile
    ELSE /\ IF nodeIdx < Len(CurrentFile.nodes)
            THEN nodeIdx' = nodeIdx + 1 /\ pc' = "js_walk"
            ELSE nodeIdx' = 1 /\ pc' = "js_flush"
         /\ UNCHANGED << consoleErrors, fileIdx >>

\* visitor ImportDeclaration(path)
JSImportDeclaration ==
    /\ pc = "js_walk"
    /\ CurrentFile.nodes[nodeIdx].type = "ImportDeclaration"
    /\ LET r == jsImportDeclaration(packageUsage, blockTracker, dependencies,
                                    CurrentFile.nodes[nodeIdx])
       IN  /\ codeMetrics' = countImport(codeMetrics)
           /\ packageUsage' = r.pu
           /\ blockTracker' = r.tr
           /\ JSAfterVisit(r.threw)
    /\ UNCHANGED << otherVars, input, output, sourceFiles, dependencies, project, dependencyGraph,
                    fileUsageTracker, result >>

\* visitor FunctionDeclaration(path)
JSFunctionDeclaration ==
    /\ pc = "js_walk"
    /\ CurrentFile.nodes[nodeIdx].type = "FunctionDeclaration"
    /\ codeMetrics' = [codeMetrics EXCEPT !.totalFunctions = @ + 1]
    /\ JSAfterVisit(FALSE)
    /\ UNCHANGED << otherVars, input, output, sourceFiles, dependencies, project, packageUsage,
                    dependencyGraph, fileUsageTracker, blockTracker, result >>

\* visitor ClassDeclaration(path)
JSClassDeclaration ==
    /\ pc = "js_walk"
    /\ CurrentFile.nodes[nodeIdx].type = "ClassDeclaration"
    /\ codeMetrics' = [codeMetrics EXCEPT !.totalClasses = @ + 1]
    /\ JSAfterVisit(FALSE)
    /\ UNCHANGED << otherVars, input, output, sourceFiles, dependencies, project, packageUsage,
                    dependencyGraph, fileUsageTracker, blockTracker, result >>

\* visitor CallExpression(path)
JSCallExpression ==
    /\ pc = "js_walk"
    /\ CurrentFile.nodes[nodeIdx].type = "CallExpression"
    /\ LET r == jsCallExpression(packageUsage, blockTracker, dependencies,
                                 CurrentFile.nodes[nodeIdx])
       IN  /\ packageUsage' = r.pu
           /\ blockTracker' = r.tr
           /\ JSAfterVisit(r.threw)
    /\ UNCHANGED << otherVars, input, output, sourceFiles, dependencies, project, codeMetrics,
                    dependencyGraph, fileUsageTracker, result >>

\* the closing Object.keys(fileUsageTracker).forEach of analyzeJavaScriptFile:
\* outside the try block the name denotes the function-scope tracker
JSFileUsage ==
    /\ pc = "js_flush"
    /\ packageUsage' = addFileUsage(packageUsage, fileUsageTracker, CurrentFile.name)
    /\ fileIdx' = fileIdx + 1
    /\ pc' = "loop"
    /\ UNCHANGED << otherVars, input, output, sourceFiles, dependencies, project, codeMetrics,
                    dependencyGraph, nodeIdx, fileUsageTracker, blockTracker,
                    consoleErrors, result >>

\* Object.keys(packageUsage).forEach(pkg => usage.migrationRisk = ...)
CalculateMigrationRisks ==
    /\ pc = "loop" /\ fileIdx > Len(sourceFiles)
    /\ packageUsage' =
         [k \in DOMAIN packageUsage |->
             [packageUsage[k] EXCEPT !.migrationRisk =
                  calculateMigrationRisk(packageUsage[k])]]
    /\ pc' = "return"
    /\ UNCHANGED << otherVars, input, output, sourceFiles, dependencies, project, codeMetrics,
                    dependencyGraph, fileIdx, nodeIdx, fileUsageTracker,
                    blockTracker, consoleErrors, result >>

\* return { packageUsage, codeMetrics, dependencyGraph }
ReturnResult ==
    /\ pc = "return"
    /\ result' = [packageUsage |-> packageUsage, codeMetrics |-> codeMetrics,
                  dependencyGraph |-> dependencyGraph]
    /\ pc' = "done"
    /\ UNCHANGED << otherVars, input, output, sourceFiles, dependencies, project, packageUsage,
                    codeMetrics, dependencyGraph, fileIdx, nodeIdx,
                    fileUsageTracker, blockTracker, consoleErrors >>

Next ==
    \/ CreateSourceFile
    \/ TSImportDeclaration
    \/ TSForEachDescendant
    \/ TSFileUsage
    \/ ParseJavaScript
    \/ JSImportDeclaration
    \/ JSFunctionDeclaration
    \/ JSClassDeclaration
    \/ JSCallExpression
    \/ JSFileUsage
    \/ CalculateMigrationRisks
    \/ ReturnResult

Spec == Init /\ [][Next]_vars

\* ------------------------------------------- the run as a function
\* The same code read as a function of its arguments: what one call of
\* performASTAnalysis(files, deps) returns.  s is the analyser's view of the
\* shared objects: [pu, cm, tr, threw].
RECURSIVE tsImportLoop(_, _, _, _)
tsImportLoop(s, deps, imports, i) ==
    IF s.threw \/ i > Len(imports) THEN s
    ELSE LET r == tsImportDeclaration(s.pu, s.tr, deps, imports[i])
         IN  tsImportLoop([pu |-> r.pu, tr |-> r.tr, threw |-> r.threw,
                           cm |-> countImport(s.cm)],
                          deps, imports, i + 1)

RECURSIVE tsDescendantLoop(_, _, _, _)
tsDescendantLoop(s, deps, nodes, i) ==
    IF s.threw \/ i > Len(nodes) THEN s
    ELSE LET r == tsDescendant(s.pu, s.tr, deps, nodes[i])
         IN  tsDescendantLoop([pu |-> r.pu, tr |-> r.tr, threw |-> r.threw,
                               cm |-> s.cm], deps, nodes, i + 1)

analyzeTypeScriptFile(pu, cm, deps, file) ==
    LET s0 == [pu |-> pu, tr |-> EmptyObject, threw |-> FALSE,
               cm |-> countDeclarations(cm, file.nodes)]
        s1 == tsImportLoop(s0, deps, getImportDeclarations(file), 1)
        s2 == tsDescendantLoop(s1, deps, file.nodes, 1)
    IN  IF s2.threw THEN s2
        ELSE [s2 EXCEPT !.pu = addFileUsage(s2.pu, s2.tr, file.name)]

\* babelTraverse(ast, visitors)
RECURSIVE babelTraverse(_, _, _, _)
babelTraverse(s, deps, nodes, i) ==
    IF s.threw \/ i > Len(nodes) THEN s
    ELSE LET n == nodes[i]
             r == IF n.type = "ImportDeclaration"
                  THEN jsImportDeclaration(s.pu, s.tr, deps, n)
                  ELSE IF n.type = "CallExpression"
                  THEN jsCallExpression(s.pu, s.tr, deps, n)
                  ELSE Unchanged(s.pu, s.tr)
             cm1 == IF n.type = "ImportDeclaration"
                    THEN countImport(s.cm)
                    ELSE IF n.type = "FunctionDeclaration"
                    THEN [s.cm EXCEPT !.totalFunctions = @ + 1]
                    ELSE IF n.type = "ClassDeclaration"
                    THEN [s.cm EXCEPT !.totalClasses = @ + 1]
                    ELSE s.cm
         IN  babelTraverse([pu |-> r.pu, tr |-> r.tr, threw |-> r.threw, cm |-> cm1],
                           deps, nodes, i + 1)

analyzeJavaScriptFile(pu, cm, deps, file) ==
    LET outer == EmptyObject
        s == IF parseThrows(file)
             THEN [pu |-> pu, tr |-> EmptyObject, threw |-> TRUE, cm |-> cm]
             ELSE IF ~babelTraverseIsFunction
             THEN [pu |-> pu, tr |-> EmptyObject, threw |-> FALSE, cm |-> cm]
             ELSE babelTraverse([pu |-> EnsureAll(pu, DepKeys(deps), 1),
                                 tr |-> EmptyObject, threw |-> FALSE, cm |-> cm],
                                deps, file.nodes, 1)
    IN  [s EXCEPT !.pu = addFileUsage(s.pu, outer, file.name)]

\* the for-loop over files[i..]; run is [pu, cm, project, failed], failed
\* being the indices of the files whose analysis threw
RECURSIVE fileLoop(_, _, _, _)
fileLoop(run, files, deps, i) ==
    IF i > Len(files) THEN run
    ELSE LET file == files[i]
         IN  IF IsTypeScriptFile(file)
             THEN IF file.name \in run.project
                  THEN fileLoop([run EXCEPT !.failed = @ \cup {i}], files, deps, i + 1)
                  ELSE LET s == analyzeTypeScriptFile(run.pu, run.cm, deps, file)
                       IN  fileLoop([pu |-> s.pu, cm |-> s.cm,
                                     project |-> run.project \cup {file.name},
                                     failed |-> IF s.threw THEN run.failed \cup {i}
                                                ELSE run.failed],
                                    files, deps, i + 1)
             ELSE LET s == analyzeJavaScriptFile(run.pu, run.cm, deps, file)
                  IN  fileLoop([pu |-> s.pu, cm |-> s.cm, project |-> run.project,
                                failed |-> IF s.threw THEN run.failed \cup {i}
                                           ELSE run.failed],
                               files, deps, i + 1)

analyzeAll(files, deps) ==
    fileLoop([pu |-> InitPackageUsage(deps),
              cm |-> [totalFunctions |-> 0, totalClasses |-> 0,
                      totalImports |-> 0, cyclomaticComplexity |-> 0],
              project |-> {}, failed |-> {}], files, deps, 1)

performASTAnalysis(files, deps) ==
    LET run == analyzeAll(files, deps)
    IN  [packageUsage |->
            [k \in DOMAIN run.pu |->
                [run.pu[k] EXCEPT !.migrationRisk = calculateMigrationRisk(run.pu[k])]],
         codeMetrics |-> run.cm,
         dependencyGraph |-> EmptyObject]

\* indices of the files of the batch whose analysis throws
FailedFiles(files, deps) == analyzeAll(files, deps).failed

\* indices of the files that fail before the tree walk starts: parse()
\* rejects the text, or createSourceFile rejects the path
ParseFailedFiles(files) ==
    { i \in 1..Len(files) :
        IF IsTypeScriptFile(files[i])
        THEN \E j \in 1..(i - 1) : IsTypeScriptFile(files[j]) /\ files[j].name = files[i].name
        ELSE ~files[i].valid }

\* the batch without the files at the indices in drop
Without(files, drop) ==
    LET keep == { i \in 1..Len(files) : i \notin drop }
        RECURSIVE pick(_)
        pick(i) == IF i > Len(files) THEN <<>>
                   ELSE IF i \in keep THEN <<files[i]>> \o pick(i + 1)
                   ELSE pick(i + 1)
    IN  pick(1)

Done == pc = "done"

\* ------------------------------------------------------------ claims
Keys == DepKeySet(dependencies)

\* C1: in every state of a run, and in the returned report, packageUsage
\* has exactly the keys of the DependencySet: one record per declared
\* package, none for any other name.
CoverageInvariant ==
    /\ DOMAIN packageUsage = Keys
    /\ Done => DOMAIN result.packageUsage = Keys

\* a finished run over a batch with a failing file, in which one declared
\* package was used and another was never touched
CoverageWitness ==
    /\ Done
    /\ consoleErrors # <<>>
    /\ \E k \in Keys : result.packageUsage[k].usageNodes # <<>>
    /\ \E k \in Keys : /\ result.packageUsage[k].importNodes = <<>>
                       /\ result.packageUsage[k].usageNodes = <<>>

\* C2: when a file fails to parse, every other file is still processed and
\* the report is the one of the batch without that file.
ParseFailureIsolation ==
    Done =>
        /\ fileIdx = Len(sourceFiles) + 1
        /\ \A k \in ParseFailedFiles(sourceFiles) :
               result = performASTAnalysis(Without(sourceFiles, {k}), dependencies)

\* a batch of three files whose second file fails to parse, with evidence
\* from the first and the third in the report
ParseFailureIsolationWitness ==
    /\ Done
    /\ Len(sourceFiles) = 3
    /\ ParseFailedFiles(sourceFiles) = {2}
    /\ \E k \in Keys :
          /\ Len(result.packageUsage[k].importNodes) >= 1
          /\ Len(result.packageUsage[k].usageNodes) >= 2
    /\ result.codeMetrics.totalFunctions >= 1

\* ---- evidence a file holds for a package, read off the input
Range(seq) == { seq[i] : i \in 1..Len(seq) }
Files == Range(sourceFiles)
Failed == FailedFiles(sourceFiles, dependencies)

\* the import declarations of file that the analysers attribute to package P
AttributedImports(file, P) ==
    SelectSeq(getImportDeclarations(file),
              LAMBDA n : extractPackageName(n.source) = P
                         /\ IsTrackedImport(dependencies, P))

\* the package the analyser of file's grammar finds for a member call
ResolveCall(file, n) ==
    IF IsTypeScriptFile(file)
    THEN findPackageFromIdentifier(getText(n.callee.object), dependencies)
    ELSE findPackageFromIdentifier(getObjectName(n.callee.object), dependencies)

\* the member calls of file that its analyser attributes to package P
AttributedCalls(file, P) ==
    SelectSeq(file.nodes, LAMBDA n : IsMemberCall(n) /\ ResolveCall(file, n) = P)

\* the require('...') calls of file whose module resolves to package P
Requires(file, P) ==
    SelectSeq(file.nodes,
              LAMBDA n : /\ n.type = "CallExpression"
                         /\ n.callee = Ident(s_require)
                         /\ Len(n.arguments) >= 1
                         /\ extractPackageName(n.arguments[1]) = P)

Texts(nodes) == [i \in 1..Len(nodes) |-> nodes[i].text]
Lines(nodes) == { nodes[i].line : i \in 1..Len(nodes) }

RECURSIVE SumOver(_, _)
SumOver(f, S) ==
    IF S = {} THEN 0
    ELSE LET x == CHOOSE y \in S : TRUE IN f[x] + SumOver(f, S \ {x})

\* C3: a file whose analysis fails, at the parse or in the middle of the
\* walk, contributes nothing: the report is the one of the batch without it.
FailedFileContributesNothing ==
    Done =>
        \A k \in Failed :
            LET without == performASTAnalysis(Without(sourceFiles, {k}), dependencies)
            IN  /\ result.packageUsage = without.packageUsage
                /\ result.codeMetrics = without.codeMetrics

\* C4: after a run every file that holds evidence for a declared package P,
\* in either grammar, has exactly one fileUsage entry in P's record, with the
\* file's import statements and line numbers; a file without evidence has none.
FileUsagePerFile ==
    Done =>
        \A i \in (1..Len(sourceFiles)) \ Failed : \A P \in Keys :
            LET f == sourceFiles[i]
                imports == AttributedImports(f, P)
                calls == AttributedCalls(f, P)
                entries == SelectSeq(result.packageUsage[P].fileUsage,
                                     LAMBDA e : e.fileName = f.name)
            IN  (\A j \in 1..Len(sourceFiles) : sourceFiles[j].name = f.name => j = i)
                => IF imports # <<>> \/ calls # <<>>
                   THEN /\ Len(entries) = 1
                        /\ entries[1].importStatements = Texts(imports)
                        /\ Range(entries[1].lineNumbers) = Lines(imports) \cup Lines(calls)
                   ELSE entries = <<>>

\* the per-file diagnostics a report carries
Diagnostics(report) ==
    IF "diagnostics" \in DOMAIN report THEN Range(report.diagnostics) ELSE {}

\* C5: the returned report carries, for every file whose parse failed, a
\* diagnostic that identifies the file.
ParseFailureDiagnosed ==
    Done =>
        \A k \in ParseFailedFiles(sourceFiles) :
            \E d \in Diagnostics(result) : d.fileName = sourceFiles[k].name

\* C6: a require of a declared package is recorded like an import of it:
\* importNodes holds one entry per import declaration and per require.
RequireRecordedAsImport ==
    (Done /\ Failed = {}) =>
        \A P \in Keys :
            DepTruthy(dependencies, P) =>
                Len(result.packageUsage[P].importNodes) =
                    SumOver([i \in 1..Len(sourceFiles) |->
                                Len(AttributedImports(sourceFiles[i], P))
                                + Len(Requires(sourceFiles[i], P))],
                            1..Len(sourceFiles))

\* the declared packages the imports and requires of file bind identifier x to
BoundPackages(file, x) ==
    { extractPackageName(n.source) :
        n \in { m \in Range(getImportDeclarations(file)) :
                  /\ \E sp \in Range(m.specifiers) : sp.local = x
                  /\ IsTrackedImport(dependencies, extractPackageName(m.source)) } }
    \cup
    { extractPackageName(n.arguments[1]) :
        n \in { m \in Range(file.nodes) :
                  /\ m.type = "CallExpression"
                  /\ m.callee = Ident(s_require)
                  /\ Len(m.arguments) >= 1
                  /\ x \in Range(m.binds)
                  /\ IsTrackedImport(dependencies, extractPackageName(m.arguments[1])) } }

\* C7: a member call on an identifier that the same file binds by an import
\* of a declared package is attributed to that package.
BindingTablePreferred ==
    (Done /\ Failed = {}) =>
        \A f \in Files : \A n \in Range(f.nodes) :
            IsMemberCall(n) =>
                \A P \in BoundPackages(f, getObjectName(n.callee.object)) :
                    n.text \in Range(result.packageUsage[P].usageNodes)

CurrentNode == CurrentFile.nodes[nodeIdx]

\* C8: in both grammars a member call is attributed to the package found for
\* the base identifier of its receiver chain, or to none if there is none.
ReceiverResolvedFromBase ==
    [][ (pc \in {"ts_walk", "js_walk"} /\ IsMemberCall(CurrentNode)) =>
          LET P == findPackageFromIdentifier(getObjectName(CurrentNode.callee.object),
                                             dependencies)
          IN  IF IsFound(P)
              THEN packageUsage'[P].usageNodes =
                       Append(packageUsage[P].usageNodes, CurrentNode.text)
              ELSE packageUsage' = packageUsage ]_vars

NoAttributedImport(P) == \A f \in Files : AttributedImports(f, P) = <<>>
NoRequire(P) == \A f \in Files : Requires(f, P) = <<>>
NoAttributedCall(P) == \A f \in Files : AttributedCalls(f, P) = <<>>
LowEmptyRecord == [EmptyUsage EXCEPT !.migrationRisk = "low"]

\* C9 as stated: a declared package without any import statement (import
\* declaration or require) across all files ends with an empty record and
\* low risk; stated for the runs in which no file fails.
UnusedWhenNoImport ==
    (Done /\ Failed = {}) =>
        \A P \in Keys :
            (NoAttributedImport(P) /\ NoRequire(P))
                => result.packageUsage[P] = LowEmptyRecord

\* C9: a declared package without any attributed import statement and
\* without any attributed member call ends with an empty record (no import,
\* usage, symbol or fileUsage entry, complexityScore 0) and low risk.
UnusedDependencyDetection ==
    Done =>
        \A P \in Keys :
            (NoAttributedImport(P) /\ NoAttributedCall(P))
                => result.packageUsage[P] = LowEmptyRecord

\* a finished run in which one declared package was imported and called and
\* another one neither
UnusedDependencyWitness ==
    /\ Done
    /\ \E P \in Keys : NoAttributedImport(P) /\ NoAttributedCall(P)
    /\ \E P \in Keys : /\ result.packageUsage[P].importNodes # <<>>
                       /\ result.packageUsage[P].usageNodes # <<>>
                       /\ result.packageUsage[P].fileUsage # <<>>

\* the import declaration the next import callback handles, if any
AtImport ==
    \/ pc = "ts_imports"
    \/ (pc = "js_walk" /\ CurrentNode.type = "ImportDeclaration")
CurrentImport ==
    IF pc = "ts_imports" THEN getImportDeclarations(CurrentFile)[nodeIdx]
    ELSE CurrentNode

\* relative or absolute specifier, or a name that is no key of the set
NotDeclared(source) ==
    extractPackageName(source) = Null \/ extractPackageName(source) \notin Keys

\* C10: handling an import whose specifier is relative or absolute, or
\* resolves to a name that is not declared, changes no record and no
\* per-file tracker and creates no record; it only adds 1 to totalImports.
UndeclaredImportNotAttributed ==
    [][ (AtImport /\ NotDeclared(CurrentImport.source)) =>
          /\ packageUsage' = packageUsage
          /\ fileUsageTracker' = fileUsageTracker
          /\ blockTracker' = blockTracker
          /\ codeMetrics' = [codeMetrics EXCEPT !.totalImports = @ + 1] ]_vars

\* a finished run without failures over files with a relative and with an
\* undeclared import: more imports were counted than were attributed
UndeclaredImportWitness ==
    /\ Done /\ Failed = {} /\ Keys # {}
    /\ \E f \in Files : \E n \in Range(getImportDeclarations(f)) :
           extractPackageName(n.source) = Null
    /\ \E f \in Files : \E n \in Range(getImportDeclarations(f)) :
           extractPackageName(n.source) # Null /\ NotDeclared(n.source)
    /\ result.codeMetrics.totalImports >=
           2 + SumOver([P \in Keys |-> Len(result.packageUsage[P].importNodes)], Keys)

\* ------------------------------------------- helpers called on their own
\* While a helper is called on its own no analysis is under way: the
\* variables of performASTAnalysis stay as they are before any call.
NoAnalysis ==
    /\ OthersAtRest
    /\ sourceFiles = <<>>
    /\ dependencies = <<>>
    /\ project = {}
    /\ packageUsage = EmptyObject
    /\ codeMetrics = [totalFunctions |-> 0, totalClasses |-> 0,
                      totalImports |-> 0, cyclomaticComplexity |-> 0]
    /\ dependencyGraph = EmptyObject
    /\ fileIdx = 1
    /\ nodeIdx = 1
    /\ fileUsageTracker = EmptyObject
    /\ blockTracker = EmptyObject
    /\ consoleErrors = <<>>
    /\ result = EmptyObject

analysisVars == << sourceFiles, dependencies, project, packageUsage, codeMetrics,
                   dependencyGraph, fileIdx, nodeIdx, fileUsageTracker,
                   blockTracker, consoleErrors, result >>

Returned == pc = "returned"

\* ---- extractPackageName(importPath) over all short specifiers
SpecifierChars == {".", "/", "@", "a"}

s_babel_core_lib_x ==
    <<"@","b","a","b","e","l","/","c","o","r","e","/","l","i","b","/","x">>
s_babel_core == <<"@","b","a","b","e","l","/","c","o","r","e">>
s_lodash_fp_merge == <<"l","o","d","a","s","h","/","f","p","/","m","e","r","g","e">>

Specifiers ==
    UNION { [1..n -> SpecifierChars] : n \in 0..MaxSpecifierLen }
    \cup { s_babel_core_lib_x, s_lodash_fp_merge, s_lodash_fp, s_utils, s_lodash }

InitResolver ==
    /\ NoAnalysis
    /\ pc = "call"
    /\ input \in Specifiers
    /\ output = Null

CallExtractPackageName ==
    /\ pc = "call"
    /\ output' = extractPackageName(input)
    /\ pc' = "returned"
    /\ UNCHANGED << input, analysisVars, otherVars >>

NextResolver == CallExtractPackageName

SpecResolver == InitResolver /\ [][NextResolver]_vars

\* the reference resolver: the specifier up to, and without, its k-th "/",
\* the whole specifier if it has fewer
slashes(s) == { i \in 1..Len(s) : s[i] = "/" }

upToSlash(s, k) ==
    LET cut == { i \in slashes(s) : Cardinality({ j \in slashes(s) : j <= i }) = k }
    IN  IF cut = {} THEN s ELSE SubSeq(s, 1, (CHOOSE i \in cut : TRUE) - 1)

ReferenceResolver(s) ==
    IF s # <<>> /\ s[1] \in {".", "/"} THEN Null
    ELSE IF s # <<>> /\ s[1] = "@" THEN upToSlash(s, 2)
    ELSE upToSlash(s, 1)

\* C11: for every specifier string extractPackageName returns a value, and
\* the one of the reference resolver: null for a relative or absolute
\* specifier, scope and name of a scoped one (the single segment if there is
\* only one), the first segment otherwise.
ExtractPackageNameIsReference ==
    Returned =>
        /\ output = ReferenceResolver(input)
        /\ (input = s_babel_core_lib_x => output = s_babel_core)
        /\ (input = s_lodash_fp_merge => output = s_lodash)

\* a deep path into a scoped package, resolved to scope and name
ExtractPackageNameWitness ==
    /\ Returned
    /\ input = s_babel_core_lib_x
    /\ output = s_babel_core

\* ---- findPackageFromIdentifier(identifier, dependencies) over small
\* DependencySets: any order of the keys, with and without a range
s_my_dash_pkg == <<"m","y","-","p","k","g">>
s_my_under_pkg == <<"m","y","_","p","k","g">>
s_mypkg == <<"m","y","p","k","g">>
s_myPkg == <<"m","y","P","k","g">>
s_Lodash == <<"L","o","d","a","s","h">>
s_React == <<"R","e","a","c","t">>

DeclaredNames == { s_lodash, s_jquery, s_react, s_axios, s_my_dash_pkg, s_my_under_pkg }
Ranges == { "4.17.19", "" }

DependencySets ==
    { d \in UNION { [1..n -> { Dep(name, range) : name \in DeclaredNames,
                                                  range \in Ranges }] :
                      n \in 0..MaxDeps } :
        \A i, j \in 1..Len(d) : d[i].name = d[j].name => i = j }

Identifiers ==
    { <<"_">>, <<"$">>, s_React, s_axios, s_moment, s_lodash, s_Lodash,
      s_mypkg, s_myPkg, s_my_under_pkg, s_foo, s_constructor }

InitMapper ==
    /\ NoAnalysis
    /\ pc = "call"
    /\ input \in { [identifier |-> id, dependencies |-> d] :
                      id \in Identifiers, d \in DependencySets }
    /\ output = Null

CallFindPackageFromIdentifier ==
    /\ pc = "call"
    /\ output' = findPackageFromIdentifier(input.identifier, input.dependencies)
    /\ pc' = "returned"
    /\ UNCHANGED << input, analysisVars, otherVars >>

NextMapper == CallFindPackageFromIdentifier

SpecMapper == InitMapper /\ [][NextMapper]_vars

\* the alias table of section 4.2
AliasTable ==
    [id \in { <<"_">>, <<"$">>, s_React, <<"V","u","e">>, s_axios, s_moment } |->
        CASE id = <<"_">> -> s_lodash
          [] id = <<"$">> -> s_jquery
          [] id = s_React -> s_react
          [] id = <<"V","u","e">> -> s_vue
          [] id = s_axios -> s_axios
          [] id = s_moment -> s_moment]

\* step 2: declared names equal to id in lower case, or equal to it once
\* "-" and "_" are removed from both and both are lower-cased
NameMatchesOf(id, D) ==
    { d \in DepKeySet(D) :
        \/ toLowerCase(d) = toLowerCase(id)
        \/ toLowerCase(removeDashUnderscore(d)) = toLowerCase(removeDashUnderscore(id)) }

\* the values the mapper may return for id under D
MapperAnswers(id, D) ==
    IF id \in DOMAIN AliasTable /\ AliasTable[id] \in DepKeySet(D)
    THEN { AliasTable[id] }
    ELSE IF NameMatchesOf(id, D) # {} THEN NameMatchesOf(id, D)
    ELSE { Null }

\* C12: findPackageFromIdentifier(id, D) returns the alias target of id when
\* id is an alias and the target is a key of D, otherwise a declared name
\* that matches id case-insensitively or after removing "-" and "_",
\* otherwise null; it never returns a name that is no key of D.
MapperFollowsAliasThenName ==
    Returned =>
        /\ output \in MapperAnswers(input.identifier, input.dependencies)
        /\ (output # Null => output \in DepKeySet(input.dependencies))

\* ---- the risk of a record by the formula of section 4.6, doubled:
\* snippets x 1 + distinct touched symbols x 2 + complexityScore x 0.5
DistinctSymbols(usage) == Range(usage.exportedSymbols)

SpecRiskTimes2(usage) ==
    2 * Len(usage.usageNodes) + 4 * Cardinality(DistinctSymbols(usage))
    + usage.complexityScore

SpecRiskClass(usage) ==
    IF SpecRiskTimes2(usage) <= 2 * RiskLowMax THEN "low"
    ELSE IF SpecRiskTimes2(usage) <= 2 * RiskMediumMax THEN "medium"
    ELSE "high"

\* C13: in the returned report the migrationRisk of every record is the
\* class of snippets x 1 + distinct symbols x 2 + complexityScore x 0.5 over
\* the record's final contents: low up to 5, medium up to 15, high above.
RiskClassifiesFinalRecord ==
    Done =>
        \A P \in Keys :
            result.packageUsage[P].migrationRisk = SpecRiskClass(result.packageUsage[P])

NoDuplicate(seq) == \A i, j \in 1..Len(seq) : seq[i] = seq[j] => i = j

\* C14: in every reachable state the exportedSymbols of every record holds
\* each symbol once, whether it was imported by name in several files,
\* imported by name twice, or imported by name and called as a method.
ExportedSymbolsNoDuplicate ==
    \A P \in DOMAIN packageUsage : NoDuplicate(packageUsage[P].exportedSymbols)

\* the scenario of section 8: {lodash: 4.17.19} and one JavaScript file with
\* const _ = require('lodash'); _.merge(a, b); _.get(a, 'x');
IsScenario ==
    /\ dependencies = << Dep(s_lodash, "4.17.19") >>
    /\ sourceFiles = << SourceFile(<<"a">> \o ext_js, TRUE, body_scenario) >>

\* C15: in the scenario the lodash record of the report has two usageNodes,
\* merge and get among its exportedSymbols, complexityScore 2 and, with
\* risk 2 x 1 + 2 x 2 + 2 x 0.5 = 7, migrationRisk medium.
ScenarioReport ==
    (Done /\ IsScenario) =>
        LET lodash == result.packageUsage[s_lodash]
        IN  /\ Len(lodash.usageNodes) = 2
            /\ {s_merge, s_get} \subseteq Range(lodash.exportedSymbols)
            /\ lodash.complexityScore = 2
            /\ riskTimes2(lodash) = 14
            /\ lodash.migrationRisk = "medium"

\* the finished run of the scenario, both calls recorded in source order
ScenarioWitness ==
    /\ Done /\ IsScenario
    /\ result.packageUsage[s_lodash].usageNodes = << "_.merge(a, b)", "_.get(a, 'x')" >>
    /\ result.packageUsage[s_lodash].migrationRisk = "medium"

\* ---- performASTAnalysis called a second time with the same arguments
\* The first report is kept by the caller (output); the second call builds
\* its project, records, metrics and graph anew (lines 36-73).  The console
\* is the process's and keeps what the first call logged.
InitTwoRuns ==
    /\ InitAnalysis
    /\ input = 1
    /\ output = Null

CallAgain ==
    /\ pc = "done"
    /\ input = 1
    /\ input' = 2
    /\ output' = result
    /\ project' = NewProject(project)
    /\ packageUsage' = InitPackageUsage(dependencies)
    /\ codeMetrics' = [totalFunctions |-> 0, totalClasses |-> 0,
                       totalImports |-> 0, cyclomaticComplexity |-> 0]
    /\ dependencyGraph' = EmptyObject
    /\ pc' = "loop"
    /\ fileIdx' = 1
    /\ nodeIdx' = 1
    /\ fileUsageTracker' = EmptyObject
    /\ blockTracker' = EmptyObject
    /\ result' = EmptyObject
    /\ UNCHANGED << sourceFiles, dependencies, consoleErrors, otherVars >>

NextTwoRuns ==
    \/ CreateSourceFile
    \/ TSImportDeclaration
    \/ TSForEachDescendant
    \/ TSFileUsage
    \/ ParseJavaScript
    \/ JSImportDeclaration
    \/ JSFunctionDeclaration
    \/ JSClassDeclaration
    \/ JSCallExpression
    \/ JSFileUsage
    \/ CalculateMigrationRisks
    \/ ReturnResult
    \/ CallAgain

SpecTwoRuns == InitTwoRuns /\ [][NextTwoRuns]_vars

SecondRunDone == Done /\ input = 2

\* C16: a second run on the same batch and the same DependencySet returns
\* the report of the first: the same keys, sequences, metrics and risks.
Determinism ==
    SecondRunDone => result = output

\* a second run over a batch with a TypeScript and a JavaScript file that
\* left evidence, finished with the first run's report at hand
DeterminismWitness ==
    /\ SecondRunDone
    /\ \E i, j \in 1..Len(sourceFiles) :
           IsTypeScriptFile(sourceFiles[i]) /\ ~IsTypeScriptFile(sourceFiles[j])
    /\ \E P \in Keys : /\ output.packageUsage[P].fileUsage # <<>>
                       /\ output.packageUsage[P].usageNodes # <<>>
    /\ Len(consoleErrors) >= 2

\* every file of the batch fails before its walk starts
NoFileParses == ParseFailedFiles(sourceFiles) = 1..Len(sourceFiles)

ZeroMetrics ==
    [totalFunctions |-> 0, totalClasses |-> 0, totalImports |-> 0,
     cyclomaticComplexity |-> 0]

\* C17: with an empty DependencySet, and with a batch in which no file
\* parses, the run does not stop before it returns; the report of the
\* former has an empty packageUsage, the report of the latter has every
\* record empty with complexityScore 0 and risk low and every counter 0.
DegenerateInputsReported ==
    /\ ((dependencies = <<>> \/ NoFileParses) /\ ~Done) => ENABLED Next
    /\ (Done /\ dependencies = <<>>) => DOMAIN result.packageUsage = {}
    /\ (Done /\ NoFileParses) =>
           /\ \A P \in Keys : result.packageUsage[P] = LowEmptyRecord
           /\ result.codeMetrics = ZeroMetrics

\* a returned report for declared packages and a batch of several files,
\* each of which failed to parse and was logged
DegenerateInputsWitness ==
    /\ Done
    /\ NoFileParses
    /\ Len(sourceFiles) >= 2
    /\ Len(consoleErrors) = Len(sourceFiles)
    /\ \E P \in Keys : DepTruthy(dependencies, P)
    /\ \A P \in Keys : result.packageUsage[P].migrationRisk = "low"

\* a returned report for the empty DependencySet and files with imports
EmptyDependencySetWitness ==
    /\ Done
    /\ dependencies = <<>>
    /\ result.codeMetrics.totalImports >= 2

\* ---- files with many calls on one package
\* import _ from 'lodash'; function f() {}; class K {};
\* _.merge(x1); ... _.merge(xn);
mergeCallTexts ==
    << "_.merge(x1)", "_.merge(x2)", "_.merge(x3)", "_.merge(x4)",
       "_.merge(x5)", "_.merge(x6)", "_.merge(x7)", "_.merge(x8)",
       "_.merge(x9)", "_.merge(x10)", "_.merge(x11)", "_.merge(x12)" >>

body_calls(n) ==
    << ImportDeclaration(s_lodash, <<ImportDefaultSpecifier(<<"_">>)>>,
                         "import _ from 'lodash'", 1),
       FunctionDeclaration,
       ClassDeclaration >>
    \o [k \in 1..n |->
            CallExpression(Member(Ident(<<"_">>), s_merge), <<>>, <<>>,
                           mergeCallTexts[k], k + 1)]

\* m, mx, mxx, ... : one name per number of calls
callsFileName(n, ext) == <<"m">> \o [k \in 1..n |-> "x"] \o ext

CallsFileUniverse ==
    { SourceFile(callsFileName(n, ext), TRUE, body_calls(n)) :
        n \in 0..MaxCalls, ext \in {ext_ts, ext_js} }

InitCalls ==
    /\ OthersAtRest
    /\ sourceFiles \in { <<f>> : f \in CallsFileUniverse }
                       \cup { <<f, g>> : f, g \in CallsFileUniverse }
    /\ dependencies = << Dep(s_lodash, "4.17.19") >>
    /\ project = NewProject({})
    /\ packageUsage = InitPackageUsage(dependencies)
    /\ codeMetrics = ZeroMetrics
    /\ dependencyGraph = EmptyObject
    /\ pc = "loop"
    /\ fileIdx = 1
    /\ nodeIdx = 1
    /\ fileUsageTracker = EmptyObject
    /\ blockTracker = EmptyObject
    /\ consoleErrors = <<>>
    /\ result = EmptyObject
    /\ input = Null
    /\ output = Null

SpecCalls == InitCalls /\ [][Next]_vars

\* the source file of the batch with the given name
FileNamed(name) == CHOOSE f \in Files : f.name = name

\* the first n elements of seq, all of them if there are fewer
FirstOf(seq, n) == [i \in 1..(IF Len(seq) < n THEN Len(seq) ELSE n) |-> seq[i]]

\* the snippets of the files i.. of the batch attributed to P, failed files
\* left out
RECURSIVE SnippetsFrom(_, _)
SnippetsFrom(i, P) ==
    IF i > Len(sourceFiles) THEN <<>>
    ELSE (IF i \in Failed THEN <<>> ELSE Texts(AttributedCalls(sourceFiles[i], P)))
         \o SnippetsFrom(i + 1, P)

\* C18: the usageExamples of every fileUsage entry are the first min(10, n)
\* of the n snippets attributed to the package in the entry's file, in
\* traversal order, so never more than 10, while usageNodes keeps all n.
UsageExamplesCapped ==
    /\ \A P \in DOMAIN packageUsage :
           \A k \in 1..Len(packageUsage[P].fileUsage) :
               LET e == packageUsage[P].fileUsage[k]
                   snippets == Texts(AttributedCalls(FileNamed(e.fileName), P))
               IN  /\ Len(e.usageExamples) <= 10
                   /\ e.usageExamples = FirstOf(snippets, 10)
    /\ Done => \A P \in Keys : result.packageUsage[P].usageNodes = SnippetsFrom(1, P)

\* a returned report with an entry for a file with more than 10 snippets:
\* 10 examples in the entry, all snippets in usageNodes
UsageExamplesCappedWitness ==
    /\ Done
    /\ \E P \in Keys : \E k \in 1..Len(result.packageUsage[P].fileUsage) :
           LET e == result.packageUsage[P].fileUsage[k]
           IN  /\ Len(Texts(AttributedCalls(FileNamed(e.fileName), P))) > 10
               /\ Len(e.usageExamples) = 10
               /\ Len(result.packageUsage[P].usageNodes) > 10

\* the import texts of the files i.. of the batch attributed to P, failed
\* files left out
RECURSIVE ImportsFrom(_, _)
ImportsFrom(i, P) ==
    IF i > Len(sourceFiles) THEN <<>>
    ELSE (IF i \in Failed THEN <<>> ELSE Texts(AttributedImports(sourceFiles[i], P)))
         \o ImportsFrom(i + 1, P)

\* seq is old with one element appended, and that element satisfies ok
AppendedOne(old, seq, ok(_)) ==
    /\ Len(seq) = Len(old) + 1
    /\ SubSeq(seq, 1, Len(old)) = old
    /\ ok(seq[Len(seq)])

\* a step works for the file the loop is at: what it adds to a record is
\* added at the end and stems from that file; the loop moves on by one file,
\* and only when the file at hand is finished or has failed
StepOfCurrentFile ==
    /\ fileIdx' \in {fileIdx, fileIdx + 1}
    /\ (fileIdx' = fileIdx + 1) => pc' = "loop"
    /\ \A P \in DOMAIN packageUsage :
           LET old == packageUsage[P]
               new == packageUsage'[P]
           IN  /\ \/ new.importNodes = old.importNodes
                  \/ /\ fileIdx <= Len(sourceFiles)
                     /\ AppendedOne(old.importNodes, new.importNodes,
                            LAMBDA x : x \in Range(Texts(getImportDeclarations(CurrentFile))))
               /\ \/ new.usageNodes = old.usageNodes
                  \/ /\ fileIdx <= Len(sourceFiles)
                     /\ AppendedOne(old.usageNodes, new.usageNodes,
                            LAMBDA x : x \in Range(Texts(SelectSeq(CurrentFile.nodes,
                                                                   IsMemberCall))))
               /\ \/ new.fileUsage = old.fileUsage
                  \/ /\ fileIdx <= Len(sourceFiles)
                     /\ AppendedOne(old.fileUsage, new.fileUsage,
                            LAMBDA e : e.fileName = CurrentFile.name)

\* C19: files are processed one after another in batch order: every entry
\* a step adds to importNodes, usageNodes or fileUsage is appended and stems
\* from the file the loop is at, a file is started only when the one before
\* is finished or has failed, and the returned sequences are the files'
\* contributions concatenated in batch order.
FilesInBatchOrder ==
    [][ /\ StepOfCurrentFile
        /\ (pc' = "done" /\ Failed = ParseFailedFiles(sourceFiles)) =>
               \A P \in Keys :
                   /\ result'.packageUsage[P].importNodes = ImportsFrom(1, P)
                   /\ result'.packageUsage[P].usageNodes = SnippetsFrom(1, P) ]_vars

\* a returned report in which a record holds the imports of an earlier file
\* before those of a later one, and calls as well
FilesInBatchOrderWitness ==
    /\ Done /\ Failed = {}
    /\ \E P \in Keys : \E i, j \in 1..Len(sourceFiles) :
           LET first == Texts(AttributedImports(sourceFiles[i], P))
               second == Texts(AttributedImports(sourceFiles[j], P))
           IN  /\ i < j
               /\ first # <<>> /\ second # <<>> /\ first # second
               /\ result.packageUsage[P].importNodes = first \o second
               /\ Len(result.packageUsage[P].usageNodes) >= 2
               /\ result.packageUsage[P].fileUsage # <<>>

\* ---- runs on DependencySets that declare names an identifier cannot
\* tell apart
\* mypkg.merge(a)
body_ambiguous ==
    << CallExpression(Member(Ident(s_mypkg), s_merge), <<>>, <<>>, "mypkg.merge(a)", 1) >>

KeyOrderFileUniverse ==
    SourceFileUniverse
    \cup { SourceFile(<<"g">> \o ext_js, TRUE, body_ambiguous),
           SourceFile(<<"g">> \o ext_ts, TRUE, body_ambiguous) }

KeyOrderDependencyUniverse ==
    DependencyUniverse
    \cup { << Dep(s_my_dash_pkg, "1.0.0"), Dep(s_my_under_pkg, "2.0.0") >>,
           << Dep(s_my_under_pkg, "2.0.0"), Dep(s_my_dash_pkg, "1.0.0") >>,
           << Dep(s_axios, "1.6.0"), Dep(s_lodash, "4.17.19") >> }

InitKeyOrder ==
    /\ OthersAtRest
    /\ sourceFiles \in { <<f>> : f \in KeyOrderFileUniverse }
                       \cup { <<f, g>> : f, g \in KeyOrderFileUniverse }
    /\ dependencies \in KeyOrderDependencyUniverse
    /\ project = NewProject({})
    /\ packageUsage = InitPackageUsage(dependencies)
    /\ codeMetrics = ZeroMetrics
    /\ dependencyGraph = EmptyObject
    /\ pc = "loop"
    /\ fileIdx = 1
    /\ nodeIdx = 1
    /\ fileUsageTracker = EmptyObject
    /\ blockTracker = EmptyObject
    /\ consoleErrors = <<>>
    /\ result = EmptyObject
    /\ input = Null
    /\ output = Null

SpecKeyOrder == InitKeyOrder /\ [][Next]_vars

\* the DependencySets with the pairs of deps in any insertion order
Reorderings(deps) ==
    { [i \in 1..Len(deps) |-> deps[p[i]]] : p \in Permutations(1..Len(deps)) }

\* C20: the returned report is the report of the run on any DependencySet
\* that holds the same name-to-range pairs in another insertion order, also
\* when an identifier matches several declared names.
KeyOrderIndependent ==
    Done =>
        \A reordered \in Reorderings(dependencies) :
            performASTAnalysis(sourceFiles, reordered) = result

\* the DependencySet with the same keys in the same order, each with a
\* non-empty version range
WithRanges(deps) == [i \in 1..Len(deps) |-> Dep(deps[i].name, "1.0.0")]

\* C21: attribution depends on the keys of the DependencySet only: the
\* records of the returned report are those of the run on the same keys
\* with non-empty version ranges.
RangeIrrelevant ==
    Done =>
        result.packageUsage
            = performASTAnalysis(sourceFiles, WithRanges(dependencies)).packageUsage

\* ---- runs on DependencySets that declare a name made of "-" and "_" only
\* the start of a call of performASTAnalysis on one of the given batches
\* and DependencySets
InitWith(batches, dependencySets) ==
    /\ OthersAtRest
    /\ sourceFiles \in batches
    /\ dependencies \in dependencySets
    /\ project = NewProject({})
    /\ packageUsage = InitPackageUsage(dependencies)
    /\ codeMetrics = ZeroMetrics
    /\ dependencyGraph = EmptyObject
    /\ pc = "loop"
    /\ fileIdx = 1
    /\ nodeIdx = 1
    /\ fileUsageTracker = EmptyObject
    /\ blockTracker = EmptyObject
    /\ consoleErrors = <<>>
    /\ result = EmptyObject
    /\ input = Null
    /\ output = Null

OneOrTwo(files) == { <<f>> : f \in files } \cup { <<f, g>> : f, g \in files }

DashDependencyUniverse ==
    { << Dep(<<"-">>, "1.0.0") >>,
      << Dep(s_lodash, "4.17.19"), Dep(<<"_", "_">>, "1.0.0") >>,
      << Dep(s_lodash, "4.17.19") >> }

InitDash == InitWith(OneOrTwo(SourceFileUniverse), DashDependencyUniverse)

SpecDash == InitDash /\ [][Next]_vars

\* the receiver of a member call has no root identifier, or its root
\* identifier resolves to no declared package
Unresolvable(node) ==
    LET root == getObjectName(node.callee.object)
    IN  root = <<>> \/ MapperAnswers(root, dependencies) = { Null }

\* C22: a member call whose receiver does not resolve to a declared package,
\* in particular one whose receiver root is not an identifier, changes no
\* record, whatever names the DependencySet declares.
UnresolvedCallIgnored ==
    [][ (pc \in {"ts_walk", "js_walk"} /\ IsMemberCall(CurrentNode)
             /\ Unresolvable(CurrentNode))
          => packageUsage' = packageUsage ]_vars

\* the record of P holds one point of complexity per snippet, and a symbol
\* if it holds a snippet
ScoreCountsCalls(pu, P) ==
    /\ pu[P].complexityScore = Len(pu[P].usageNodes)
    /\ pu[P].usageNodes # <<>> => pu[P].exportedSymbols # <<>>

RiskRank(risk) == CASE risk = "low" -> 1 [] risk = "medium" -> 2 [] risk = "high" -> 3

IsPrefix(short, long) ==
    Len(short) <= Len(long) /\ SubSeq(long, 1, Len(short)) = short

\* the batch without its last file
ButLast(files) == SubSeq(files, 1, Len(files) - 1)

\* C24: the report of a batch extends the report of the batch without its
\* last file: for every package importNodes, usageNodes, exportedSymbols and
\* fileUsage of the shorter batch are prefixes of those of the longer one,
\* and the risk of the longer one is not lower, whether or not the last
\* file parses.
AppendingFileKeepsEvidence ==
    (Done /\ sourceFiles # <<>>) =>
        LET before == performASTAnalysis(ButLast(sourceFiles), dependencies).packageUsage
            after == result.packageUsage
        IN  \A P \in Keys :
                /\ IsPrefix(before[P].importNodes, after[P].importNodes)
                /\ IsPrefix(before[P].usageNodes, after[P].usageNodes)
                /\ IsPrefix(before[P].exportedSymbols, after[P].exportedSymbols)
                /\ IsPrefix(before[P].fileUsage, after[P].fileUsage)
                /\ RiskRank(before[P].migrationRisk) <= RiskRank(after[P].migrationRisk)

\* a report in which the last file of the batch added calls to a record
\* that held an import before, and raised its risk
AppendingFileWitness ==
    /\ Done /\ Len(sourceFiles) >= 2
    /\ \E P \in Keys :
           LET before == performASTAnalysis(ButLast(sourceFiles), dependencies).packageUsage[P]
               after == result.packageUsage[P]
           IN  /\ before.importNodes # <<>>
               /\ Len(after.usageNodes) > Len(before.usageNodes)
               /\ before.migrationRisk = "low"
               /\ after.migrationRisk = "medium"

\* the import texts held by all records of pu together
AttributedImportCount(pu) ==
    SumOver([P \in DOMAIN pu |-> Len(pu[P].importNodes)], DOMAIN pu)

\* the import declarations of the files of the batch that did not fail
DeclaredImportCount ==
    SumOver([i \in 1..Len(sourceFiles) |->
                IF i \in Failed THEN 0 ELSE Len(getImportDeclarations(sourceFiles[i]))],
            1..Len(sourceFiles))

\* C25: totalFunctions, totalClasses and totalImports never decrease; every
\* import declaration that is handled adds 1 to totalImports, attributed or
\* not, so the records never hold more import texts than totalImports.
MetricsMonotone ==
    [][ /\ codeMetrics'.totalFunctions >= codeMetrics.totalFunctions
        /\ codeMetrics'.totalClasses >= codeMetrics.totalClasses
        /\ codeMetrics'.totalImports >= codeMetrics.totalImports
        /\ AtImport => codeMetrics'.totalImports = codeMetrics.totalImports + 1
        /\ AttributedImportCount(packageUsage) <= codeMetrics.totalImports
        /\ AttributedImportCount(packageUsage') <= codeMetrics'.totalImports
        /\ (pc' = "done" /\ Failed = ParseFailedFiles(sourceFiles)) =>
               codeMetrics'.totalImports = DeclaredImportCount ]_vars

\* a walk that has counted functions, classes and more imports than the
\* records hold, some of which they do hold
MetricsMonotoneWitness ==
    /\ pc \in {"ts_walk", "js_walk"}
    /\ codeMetrics.totalFunctions >= 1
    /\ codeMetrics.totalClasses >= 1
    /\ AttributedImportCount(packageUsage) >= 1
    /\ codeMetrics.totalImports > AttributedImportCount(packageUsage)

ImportMatch(kind, path, braces, local, text) ==
    [kind |-> kind, path |-> path, braces |-> braces, local |-> local, text |-> text]
Access(object, property) == [object |-> object, property |-> property]
TextFile(name, statements, accesses) ==
    [name |-> name, statements |-> statements, accesses |-> accesses]

s_set == <<"s","e","t">>
s_side == <<".","/","s","i","d","e">>

\* import _ from 'lodash'; import axios from 'axios';
\* _.merge(a, b); axios.get(u);
text_both ==
    TextFile(<<"b","o","t","h">> \o ext_js,
             << ImportMatch("from", s_lodash, <<>>, <<"_">>, "import _ from 'lodash'"),
                ImportMatch("from", s_axios, <<>>, s_axios, "import axios from 'axios'") >>,
             << Access(<<"_">>, s_merge), Access(s_axios, s_get) >>)

\* const m = require('moment'); import './side';
\* import { get, set } from 'lodash/fp'; get(a, 'x');
text_named ==
    TextFile(<<"n","a","m","e","d">> \o ext_js,
             << ImportMatch("require", s_moment, <<>>, <<"m">>, "require('moment')"),
                ImportMatch("bare", s_side, <<>>, <<>>, "import './side'"),
                ImportMatch("from", s_lodash_fp, <<s_get, s_set>>, <<>>,
                            "import { get, set } from 'lodash/fp'") >>,
             << >>)

\* const a = require('lodash'); const b = require('lodash'); lodash.chain(x);
text_twice ==
    TextFile(<<"t","w","i","c","e">> \o ext_js,
             << ImportMatch("require", s_lodash, <<>>, <<"a">>, "require('lodash')"),
                ImportMatch("require", s_lodash, <<>>, <<"b">>, "require('lodash')") >>,
             << Access(s_lodash, s_chain) >>)

\* import c from 'constructor';
text_inherited ==
    TextFile(<<"c","t","o","r">> \o ext_js,
             << ImportMatch("from", s_constructor, <<>>, <<"c">>,
                            "import c from 'constructor'") >>,
             << >>)

\* this.app.get('/');
text_plain ==
    TextFile(<<"p","l","a","i","n">> \o ext_js, << >>, << Access(s_app, s_get) >>)

TextFileUniverse == { text_both, text_named, text_twice, text_inherited, text_plain }

\* the matches of the three import expressions in the order the scan meets
\* them: importRegexes.forEach(regex => while (regex.exec(content)) ...)
importMatches(file) ==
    SelectSeq(file.statements, LAMBDA m : m.kind = "from")
    \o SelectSeq(file.statements, LAMBDA m : m.kind = "bare")
    \o SelectSeq(file.statements, LAMBDA m : m.kind = "require")

\* variant: pushed without the includes test
pushIfAbsent_Always(seq, x) == Append(seq, x)

\* if (!seq.includes(x)) seq.push(x)
pushIfAbsent(seq, x) ==
    IF \E i \in 1..Len(seq) : seq[i] = x THEN seq ELSE Append(seq, x)

RECURSIVE pushAllIfAbsent(_, _, _)
pushAllIfAbsent(seq, xs, i) ==
    IF i > Len(xs) THEN seq ELSE pushAllIfAbsent(pushIfAbsent(seq, xs[i]), xs, i + 1)

\* the properties of the accesses whose object text ends with suffix: the
\* matches of new RegExp(suffix + "\\.(\\w+)", "g"), which is not anchored
\* at the start of the object (suffix without characters special in a
\* regular expression)
propertiesAfter(file, suffix) ==
    LET hits == SelectSeq(file.accesses, LAMBDA a : endsWith(a.object, suffix))
    IN  [i \in 1..Len(hits) |-> hits[i].property]

\* the names between braces in front of from 'importPath'
RECURSIVE destructuredFrom(_, _, _)
destructuredFrom(statements, importPath, i) ==
    IF i > Len(statements) THEN <<>>
    ELSE (IF statements[i].kind = "from" /\ statements[i].path = importPath
          THEN statements[i].braces ELSE <<>>)
         \o destructuredFrom(statements, importPath, i + 1)

\* extractMethodUsage(content, packageName, importPath): the three patterns
\* in turn, each method once
extractMethodUsage(file, packageName, importPath) ==
    pushAllIfAbsent(<<>>,
                    propertiesAfter(file, <<"_">>)
                    \o propertiesAfter(file, packageName)
                    \o destructuredFrom(file.statements, importPath, 1),
                    1)

EmptyCodeUsage == [filesUsing |-> <<>>, methodsUsed |-> <<>>, importStatements |-> <<>>]

InitCodeUsage ==
    /\ sourceFiles \in { <<>> } \cup OneOrTwo(TextFileUniverse)
    /\ dependencies \in DependencyUniverse
    /\ packageUsage = [k \in DepKeySet(dependencies) |-> EmptyCodeUsage]
    /\ usedPackages = {}
    /\ pc = "files"
    /\ fileIdx = 1
    /\ nodeIdx = 1
    /\ result = EmptyObject
    /\ project = {}
    /\ codeMetrics = ZeroMetrics
    /\ dependencyGraph = EmptyObject
    /\ fileUsageTracker = EmptyObject
    /\ blockTracker = EmptyObject
    /\ consoleErrors = <<>>
    /\ input = Null
    /\ output = Null
    /\ storage = NewMemStorage
    /\ zipfile = Null
    /\ packageJsonContent = Null
    /\ promise = Null

codeUsageFrame ==
    << sourceFiles, dependencies, project, codeMetrics, dependencyGraph,
       fileUsageTracker, blockTracker, consoleErrors, input, output,
       storage, zipfile, packageJsonContent, promise >>

\* one match of an import expression in the current file (lines 48-71)
ScanImportMatch ==
    /\ pc = "files" /\ fileIdx <= Len(sourceFiles)
    /\ nodeIdx <= Len(importMatches(CurrentFile))
    /\ LET match == importMatches(CurrentFile)[nodeIdx]
           packageName == extractPackageName(match.path)
       IN  IF ~IsTrackedImport(dependencies, packageName)
           THEN /\ nodeIdx' = nodeIdx + 1
                /\ UNCHANGED << usedPackages, packageUsage, pc >>
           ELSE /\ usedPackages' = usedPackages \cup {packageName}
                /\ IF packageName \notin DOMAIN packageUsage
                   THEN \* .filesUsing of an inherited function is undefined
                        /\ pc' = "threw"
                        /\ UNCHANGED << packageUsage, nodeIdx >>
                   ELSE /\ packageUsage' =
                             [packageUsage EXCEPT
                                ![packageName].filesUsing =
                                    pushIfAbsent(@, CurrentFile.name),
                                ![packageName].importStatements = Append(@, match.text),
                                ![packageName].methodsUsed =
                                    pushAllIfAbsent(@, extractMethodUsage(CurrentFile,
                                                        packageName, match.path), 1)]
                        /\ nodeIdx' = nodeIdx + 1
                        /\ UNCHANGED pc
    /\ UNCHANGED << fileIdx, result, codeUsageFrame >>

\* the expressions find nothing more: sourceFiles.forEach takes the next file
ScanNextFile ==
    /\ pc = "files" /\ fileIdx <= Len(sourceFiles)
    /\ nodeIdx > Len(importMatches(CurrentFile))
    /\ fileIdx' = fileIdx + 1
    /\ nodeIdx' = 1
    /\ UNCHANGED << pc, usedPackages, packageUsage, result, codeUsageFrame >>

\* lines 76-82
ReturnCodeUsage ==
    /\ pc = "files" /\ fileIdx > Len(sourceFiles)
    /\ result' = [packageUsage |-> packageUsage,
                  unusedDependencies |->
                      SelectSeq(DepKeys(dependencies), LAMBDA dep : dep \notin usedPackages),
                  totalFiles |-> Len(sourceFiles)]
    /\ pc' = "done"
    /\ UNCHANGED << fileIdx, nodeIdx, usedPackages, packageUsage, codeUsageFrame >>

NextCodeUsage ==
    \/ ScanImportMatch
    \/ ScanNextFile
    \/ ReturnCodeUsage

SpecCodeUsage == InitCodeUsage /\ [][NextCodeUsage]_vars

\* C27: analyzeCodeUsage keeps exactly one record per declared package and
\* no file name twice in a filesUsing list; its report names as unused
\* exactly the declared packages with an empty filesUsing, and gives the
\* number of source files as totalFiles.
CodeUsageWellFormed ==
    /\ DOMAIN packageUsage = Keys
    /\ \A P \in Keys : NoDuplicate(packageUsage[P].filesUsing)
    /\ Done =>
          /\ DOMAIN result.packageUsage = Keys
          /\ Range(result.unusedDependencies)
                 = { P \in Keys : result.packageUsage[P].filesUsing = <<>> }
          /\ NoDuplicate(result.unusedDependencies)
          /\ \A P \in Keys : NoDuplicate(result.packageUsage[P].filesUsing)
          /\ result.totalFiles = Len(sourceFiles)

\* a report over two files in which one declared package is unused and
\* another was imported twice by the same file
CodeUsageWitness ==
    /\ Done /\ Len(sourceFiles) = 2
    /\ result.unusedDependencies # <<>>
    /\ \E P \in Keys : /\ Len(result.packageUsage[P].importStatements) >= 2
                       /\ Len(result.packageUsage[P].filesUsing) = 1

\* the identifiers a file binds to package P, and P's own name
OwnIdentifiers(file, P) ==
    {P} \cup { file.statements[i].local :
                 i \in { j \in 1..Len(file.statements) :
                            /\ extractPackageName(file.statements[j].path) = P
                            /\ file.statements[j].local # <<>> } }

\* the names accessed on an identifier of P or destructured from an import of P
OwnMethods(P) ==
    UNION { { file.accesses[i].property :
                 i \in { j \in 1..Len(file.accesses) :
                            file.accesses[j].object \in OwnIdentifiers(file, P) } }
            \cup UNION { Range(file.statements[i].braces) :
                            i \in { j \in 1..Len(file.statements) :
                                       extractPackageName(file.statements[j].path) = P } }
            : file \in Range(sourceFiles) }

\* C28: in the report of analyzeCodeUsage the methodsUsed of a package P
\* holds only names accessed on an identifier of P or destructured from an
\* import of P.
MethodsUsedOwnOnly ==
    Done => \A P \in Keys : Range(result.packageUsage[P].methodsUsed) \subseteq OwnMethods(P)

\* =====================================================================
\* MemStorage (the analysis results kept in memory)
\* =====================================================================
\* calls of saveAnalysisResult explored
MaxSaves == 3

\* the value of a Map.get that finds nothing
undefined == [undefined |-> TRUE]

SessionIds == { "session-a", "session-b" }
UnknownSessionId == "session-x"

\* an InsertAnalysisResult: aiSuggestions absent, empty or given; the other
\* fields are spread unchanged and stand behind packageJson
MissingField == "<undefined>"
InsertAnalysisResults ==
    [sessionId : SessionIds, packageJson : {"{}"},
     aiSuggestions : { MissingField, "", "upgrade lodash" },
     codeAnalysis : { MissingField }]

\* x || null
orNull(x) == IF x = MissingField \/ x = "" THEN "null" ELSE x

\* variant: the counter stays
postIncrement_Stuck(n) == n

\* the counter after this.currentAnalysisId++
postIncrement(n) == n + 1

\* lines 49-55; createdAt, the time of the call, is left out
newAnalysisResult(analysis, id) ==
    [sessionId |-> analysis.sessionId, packageJson |-> analysis.packageJson,
     id |-> id,
     aiSuggestions |-> orNull(analysis.aiSuggestions),
     codeAnalysis |-> orNull(analysis.codeAnalysis)]

\* Map.get
MapGet(map, key) == IF key \in DOMAIN map THEN map[key] ELSE undefined

InitStorage ==
    /\ storage = NewMemStorage
    /\ input = <<>>        \* the arguments of the saveAnalysisResult calls so far
    /\ output = [call |-> "none", value |-> undefined]
    /\ NoAnalysis
    /\ pc = "serving"

storageFrame ==
    << analysisVars, pc, usedPackages, zipfile, packageJsonContent, promise >>

\* storage.saveAnalysisResult(analysis), lines 47-61
SaveAnalysisResult ==
    /\ storage.currentAnalysisId <= MaxSaves
    /\ \E analysis \in InsertAnalysisResults :
          LET id == storage.currentAnalysisId
              saved == newAnalysisResult(analysis, id)
          IN  /\ storage' =
                    [storage EXCEPT
                       !.currentAnalysisId = postIncrement(@),
                       !.analysisResults = Put(@, id, saved),
                       !.analysisResultsBySession = Put(@, analysis.sessionId, saved)]
              /\ input' = Append(input, analysis)
              /\ output' = [call |-> "saveAnalysisResult", value |-> saved]
    /\ UNCHANGED storageFrame

\* storage.getAnalysisResult(sessionId), lines 63-65
GetAnalysisResult ==
    /\ \E sessionId \in SessionIds \cup {UnknownSessionId} :
          output' = [call |-> "getAnalysisResult", key |-> sessionId,
                     value |-> MapGet(storage.analysisResultsBySession, sessionId)]
    /\ UNCHANGED << storage, input, storageFrame >>

\* storage.getAnalysisResultById(id), lines 67-69
GetAnalysisResultById ==
    /\ \E id \in 0..(MaxSaves + 1) :
          output' = [call |-> "getAnalysisResultById", key |-> id,
                     value |-> MapGet(storage.analysisResults, id)]
    /\ UNCHANGED << storage, input, storageFrame >>

\* GET /api/analysis/:sessionId, routes-fixed.ts lines 443-457
GetAnalysisRoute ==
    /\ \E sessionId \in SessionIds \cup {UnknownSessionId} :
          LET found == MapGet(storage.analysisResultsBySession, sessionId)
          IN  output' = [call |-> "GET /api/analysis", key |-> sessionId,
                         status |-> IF found = undefined THEN 404 ELSE 200,
                         value |-> found]
    /\ UNCHANGED << storage, input, storageFrame >>

NextStorage ==
    \/ SaveAnalysisResult
    \/ GetAnalysisResult
    \/ GetAnalysisResultById
    \/ GetAnalysisRoute

SpecStorage == InitStorage /\ [][NextStorage]_vars

\* the calls of saveAnalysisResult with sessionId s, by position
SavesOf(s) == { i \in 1..Len(input) : input[i].sessionId = s }
Max(S) == CHOOSE m \in S : \A n \in S : n <= m

\* what the k-th call of saveAnalysisResult has to have stored
KthSaved(k) == newAnalysisResult(input[k], k)

\* what a lookup has to answer after the calls in input
ExpectedById(id) == IF id \in 1..Len(input) THEN KthSaved(id) ELSE undefined
ExpectedBySession(s) == IF SavesOf(s) = {} THEN undefined ELSE KthSaved(Max(SavesOf(s)))

\* C29: the k-th saveAnalysisResult assigns id k; getAnalysisResultById
\* answers with the result saved under that id, getAnalysisResult with the
\* most recent result of the session, both with undefined for unknown keys;
\* the store depends on the saves alone, so no lookup changes it.
MemStorageLookups ==
    /\ storage.currentAnalysisId = Len(input) + 1
    /\ DOMAIN storage.analysisResults = 1..Len(input)
    /\ \A id \in 0..(Len(input) + 1) :
          MapGet(storage.analysisResults, id) = ExpectedById(id)
    /\ DOMAIN storage.analysisResultsBySession = { s \in SessionIds : SavesOf(s) # {} }
    /\ \A s \in SessionIds \cup {UnknownSessionId} :
          MapGet(storage.analysisResultsBySession, s) = ExpectedBySession(s)
    /\ (output.call = "saveAnalysisResult") =>
          /\ output.value = KthSaved(Len(input))
          /\ output.value.id = Len(input)
    /\ (output.call = "getAnalysisResultById") => (output.value = ExpectedById(output.key))
    /\ (output.call = "getAnalysisResult") => (output.value = ExpectedBySession(output.key))
    /\ (output.call = "GET /api/analysis") =>
          /\ output.value = ExpectedBySession(output.key)
          /\ (output.status = 404) <=> (SavesOf(output.key) = {})

\* two different results were saved under one sessionId and the lookup by
\* session answered with the second
MemStorageWitness ==
    /\ Len(input) >= 2
    /\ input[1].sessionId = input[2].sessionId
    /\ input[1].aiSuggestions # input[2].aiSuggestions
    /\ output.call = "getAnalysisResult"
    /\ output.key = input[1].sessionId
    /\ output.value # undefined
    /\ output.value.id = 2
    /\ MapGet(storage.analysisResults, 1) = KthSaved(1)

\* =====================================================================
\* extractZipFile (routes-fixed.ts)
\* =====================================================================
\* entries of an archive explored
MaxEntries == 3

\* an entry of the archive: its name, the chunks its stream delivers,
\* whether openReadStream succeeds, whether the reader reports the entry as
\* an error instead of emitting it, and whether its stream breaks while read
Entry(fileName, chunks, opens, invalid, breaks) ==
    [fileName |-> fileName, chunks |-> chunks, opens |-> opens,
     invalid |-> invalid, breaks |-> breaks]

entry_dir ==
    Entry(<<"s","r","c","/">>,
          <<>>, TRUE, FALSE, FALSE)
entry_node_modules ==
    Entry(<<"n","o","d","e","_","m","o","d","u","l","e","s","/","a",".","j","s">>,
          <<<<"m">>>>, TRUE, FALSE, FALSE)
entry_dotfile ==
    Entry(<<".","e","n","v",".","j","s">>,
          <<<<"e">>>>, TRUE, FALSE, FALSE)
entry_hidden ==
    Entry(<<"s","r","c","/",".","h",".","j","s">>,
          <<<<"h">>>>, TRUE, FALSE, FALSE)
entry_package_json ==
    Entry(<<"p","a","c","k","a","g","e",".","j","s","o","n">>,
          <<<<"{","}">>>>, TRUE, FALSE, FALSE)
entry_ts ==
    Entry(<<"s","r","c","/","a",".","t","s">>,
          <<<<"x">>, <<"y">>>>, TRUE, FALSE, FALSE)
entry_js ==
    Entry(<<"b",".","j","s">>,
          <<<<"z">>>>, TRUE, FALSE, FALSE)
entry_readme ==
    Entry(<<"R","E","A","D","M","E",".","m","d">>,
          <<<<"r">>>>, TRUE, FALSE, FALSE)
entry_unopenable ==
    Entry(<<"c",".","j","s","x">>,
          <<<<"c">>>>, FALSE, FALSE, FALSE)
entry_invalid ==
    Entry(<<"d",".","m","j","s">>,
          <<<<"d">>>>, TRUE, TRUE, FALSE)
entry_truncated ==
    Entry(<<"t",".","j","s">>,
          <<<<"t">>, <<"u">>>>, TRUE, FALSE, TRUE)

EntryUniverse ==
    { entry_dir,
      entry_node_modules,
      entry_dotfile,
      entry_hidden,
      entry_package_json,
      entry_ts,
      entry_js,
      entry_readme,
      entry_unopenable,
      entry_invalid,
      entry_truncated }

RECURSIVE SeqsUpTo(_, _)
SeqsUpTo(S, n) ==
    IF n = 0 THEN { <<>> }
    ELSE LET shorter == SeqsUpTo(S, n - 1)
         IN  shorter \cup { Append(q, x) : q \in { r \in shorter : Len(r) = n - 1 }, x \in S }

Archives == SeqsUpTo(EntryUniverse, MaxEntries)

s_node_modules_slash == <<"n","o","d","e","_","m","o","d","u","l","e","s","/">>
s_package_json == <<"p","a","c","k","a","g","e",".","j","s","o","n">>
SourceExtensions == { <<".","j","s">>, <<".","t","s">>, <<".","j","s","x">>, <<".","t","s","x">>, <<".","m","j","s">> }

\* String.prototype.includes
includes(s, sub) ==
    \E i \in 1..(Len(s) - Len(sub) + 1) : SubSeq(s, i, i + Len(sub) - 1) = sub

\* path.basename of a name that does not end with a separator
basename(p) ==
    LET cuts == { i \in 1..Len(p) : p[i] = "/" }
    IN  IF cuts = {} THEN p
        ELSE SubSeq(p, (CHOOSE m \in cuts : \A n \in cuts : n <= m) + 1, Len(p))

\* /\/$/.test(entry.fileName)
isDirectoryEntry(entry) == endsWith(entry.fileName, <<"/">>)

\* lines 204-206
isSkippedPath(entry) ==
    \/ includes(entry.fileName, s_node_modules_slash)
    \/ includes(entry.fileName, <<"/", ".">>)
    \/ startsWith(entry.fileName, ".")

\* /\.(js|ts|jsx|tsx|mjs)$/.test(fileName)
isSourceName(fileName) == \E ext \in SourceExtensions : endsWith(fileName, ext)

\* Buffer.concat(chunks).toString('utf8')
RECURSIVE concat(_)
concat(chunks) == IF chunks = <<>> THEN <<>> ELSE Head(chunks) \o concat(Tail(chunks))

\* resolve(value) and reject(reason): the first call settles the promise,
\* later calls leave it as it is; calls counts them all
PendingPromise == [state |-> "pending", value |-> undefined, calls |-> 0]
resolve(p, value) ==
    IF p.state = "pending"
    THEN [state |-> "fulfilled", value |-> value, calls |-> p.calls + 1]
    ELSE [p EXCEPT !.calls = @ + 1]
reject(p, reason) ==
    IF p.state = "pending"
    THEN [state |-> "rejected", value |-> [error |-> reason], calls |-> p.calls + 1]
    ELSE [p EXCEPT !.calls = @ + 1]

\* variant: the next entry is requested after a stream failed to open
readEntryAfterOpenFailure_Continue(requested) == requested + 1

\* if (err) return reject(err): no readEntry follows
readEntryAfterOpenFailure(requested) == requested

\* zipfile: the archive behind the reader, the number of entries it has
\* emitted, the readEntry calls it has not answered yet, and the streams
\* asked for and not yet read to the end
InitZip ==
    /\ zipfile \in { [entries |-> a, valid |-> TRUE, position |-> 0,
                       requested |-> 0, streams |-> {}] : a \in Archives }
                   \cup { [entries |-> <<>>, valid |-> FALSE, position |-> 0,
                           requested |-> 0, streams |-> {}] }
    /\ promise = PendingPromise
    /\ sourceFiles = <<>>
    /\ packageJsonContent = Null
    /\ pc = "fromBuffer"
    /\ dependencies = <<>>
    /\ project = {}
    /\ packageUsage = EmptyObject
    /\ codeMetrics = ZeroMetrics
    /\ dependencyGraph = EmptyObject
    /\ fileIdx = 1
    /\ nodeIdx = 1
    /\ fileUsageTracker = EmptyObject
    /\ blockTracker = EmptyObject
    /\ consoleErrors = <<>>
    /\ result = EmptyObject
    /\ input = Null
    /\ output = Null
    /\ usedPackages = {}
    /\ storage = NewMemStorage

zipFrame ==
    << dependencies, project, packageUsage, codeMetrics, dependencyGraph, fileIdx,
       nodeIdx, fileUsageTracker, blockTracker, consoleErrors, result, input,
       output, usedPackages, storage >>

\* the callback of yauzl.fromBuffer, lines 186-192
FromBufferCallback ==
    /\ pc = "fromBuffer"
    /\ IF ~zipfile.valid
       THEN /\ promise' = reject(promise, "fromBuffer")
            /\ pc' = "error"
            /\ UNCHANGED zipfile
       ELSE /\ zipfile' = [zipfile EXCEPT !.requested = @ + 1]
            /\ pc' = "extracting"
            /\ UNCHANGED promise
    /\ UNCHANGED << sourceFiles, packageJsonContent, zipFrame >>

NextEntry == zipfile.entries[zipfile.position + 1]

\* the reader answers a readEntry with the next entry; the "entry" handler
\* up to its return or its call of openReadStream, lines 194-210
OnEntry ==
    /\ pc = "extracting"
    /\ zipfile.requested > 0
    /\ zipfile.position < Len(zipfile.entries)
    /\ ~NextEntry.invalid
    /\ zipfile' =
          IF isDirectoryEntry(NextEntry) \/ isSkippedPath(NextEntry)
          THEN [zipfile EXCEPT !.position = @ + 1,
                               !.requested = (@ - 1) + 1]
          ELSE [zipfile EXCEPT !.position = @ + 1,
                               !.requested = @ - 1,
                               !.streams = @ \cup { [entry |-> zipfile.position + 1,
                                                      phase |-> "opening",
                                                      chunks |-> <<>>] }]
    /\ UNCHANGED << pc, promise, sourceFiles, packageJsonContent, zipFrame >>

\* the reader answers a readEntry with "error", line 236
OnError ==
    /\ pc = "extracting"
    /\ zipfile.requested > 0
    /\ zipfile.position < Len(zipfile.entries)
    /\ NextEntry.invalid
    /\ zipfile' = [zipfile EXCEPT !.requested = @ - 1]
    /\ promise' = reject(promise, "error")
    /\ pc' = "error"
    /\ UNCHANGED << sourceFiles, packageJsonContent, zipFrame >>

\* the callback of openReadStream, lines 210-215
OpenReadStreamCallback ==
    /\ pc = "extracting"
    /\ \E st \in zipfile.streams :
          /\ st.phase = "opening"
          /\ IF ~zipfile.entries[st.entry].opens
             THEN /\ promise' = reject(promise, "openReadStream")
                  /\ zipfile' = [zipfile EXCEPT
                                    !.streams = @ \ {st},
                                    !.requested = readEntryAfterOpenFailure(@)]
             ELSE /\ zipfile' = [zipfile EXCEPT
                                    !.streams = (@ \ {st}) \cup { [st EXCEPT !.phase = "open"] }]
                  /\ UNCHANGED promise
    /\ UNCHANGED << pc, sourceFiles, packageJsonContent, zipFrame >>

\* readStream "data", line 214
ReadStreamData ==
    /\ pc = "extracting"
    /\ \E st \in zipfile.streams :
          /\ st.phase = "open"
          /\ Len(st.chunks) < Len(zipfile.entries[st.entry].chunks)
          /\ ~(zipfile.entries[st.entry].breaks /\ Len(st.chunks) >= 1)
          /\ zipfile' = [zipfile EXCEPT
                            !.streams = (@ \ {st}) \cup
                               { [st EXCEPT !.chunks =
                                    Append(@, zipfile.entries[st.entry].chunks[Len(@) + 1])] }]
    /\ UNCHANGED << pc, promise, sourceFiles, packageJsonContent, zipFrame >>

\* readStream "error": no listener is registered, the event is thrown as
\* an uncaught exception and the process ends
ReadStreamError ==
    /\ pc = "extracting"
    /\ \E st \in zipfile.streams :
          /\ st.phase = "open"
          /\ zipfile.entries[st.entry].breaks /\ Len(st.chunks) >= 1
    /\ pc' = "crashed"
    /\ UNCHANGED << zipfile, promise, sourceFiles, packageJsonContent, zipFrame >>

\* readStream "end", lines 215-229
ReadStreamEnd ==
    /\ pc = "extracting"
    /\ \E st \in zipfile.streams :
          LET entry == zipfile.entries[st.entry]
              content == concat(st.chunks)
              fileName == basename(entry.fileName)
          IN  /\ st.phase = "open"
              /\ Len(st.chunks) = Len(entry.chunks)
              /\ ~entry.breaks
              /\ IF fileName = s_package_json
                 THEN /\ packageJsonContent' = content
                      /\ UNCHANGED sourceFiles
                 ELSE IF isSourceName(fileName)
                 THEN /\ sourceFiles' = Append(sourceFiles,
                                               [name |-> entry.fileName, content |-> content])
                      /\ UNCHANGED packageJsonContent
                 ELSE UNCHANGED << sourceFiles, packageJsonContent >>
              /\ zipfile' = [zipfile EXCEPT !.streams = @ \ {st},
                                            !.requested = @ + 1]
    /\ UNCHANGED << pc, promise, zipFrame >>

\* the reader answers a readEntry after the last entry with "end",
\* lines 232-234
OnEnd ==
    /\ pc = "extracting"
    /\ zipfile.requested > 0
    /\ zipfile.position = Len(zipfile.entries)
    /\ zipfile' = [zipfile EXCEPT !.requested = @ - 1]
    /\ promise' = resolve(promise, [packageJsonContent |-> packageJsonContent,
                                    sourceFiles |-> sourceFiles])
    /\ pc' = "ended"
    /\ UNCHANGED << sourceFiles, packageJsonContent, zipFrame >>

NextZip ==
    \/ FromBufferCallback
    \/ OnEntry
    \/ OnError
    \/ OpenReadStreamCallback
    \/ ReadStreamData
    \/ ReadStreamError
    \/ ReadStreamEnd
    \/ OnEnd

SpecZip == InitZip /\ [][NextZip]_vars

\* the entries of the archive the handlers are through with: those emitted,
\* less the one whose stream is still asked for or read
HandledEntries == zipfile.position - Cardinality(zipfile.streams)

\* an entry the handlers accept as a source file
IsAcceptedSource(entry) ==
    /\ ~isDirectoryEntry(entry) /\ ~isSkippedPath(entry)
    /\ basename(entry.fileName) # s_package_json
    /\ isSourceName(basename(entry.fileName))

\* the source files of the first n entries, in archive order
RECURSIVE AcceptedSources(_, _)
AcceptedSources(entries, n) ==
    IF n = 0 THEN <<>>
    ELSE AcceptedSources(entries, n - 1)
         \o (IF IsAcceptedSource(entries[n]) /\ entries[n].opens
             THEN << [name |-> entries[n].fileName, content |-> concat(entries[n].chunks)] >>
             ELSE <<>>)

\* a name of a directory, with a node_modules segment, or with a segment
\* that starts with a dot
IsExcludedName(name) ==
    LET segments == split(name)
    IN  \/ name[Len(name)] = "/"
        \/ \E i \in 1..(Len(segments) - 1) : segments[i] = <<"n","o","d","e","_","m","o","d","u","l","e","s">>
        \/ \E i \in 1..Len(segments) : segments[i] # <<>> /\ segments[i][1] = "."

\* C30: at most one entry is under way at any time (a requested entry or
\* one stream); sourceFiles holds the accepted source entries handled so far
\* in archive order and no directory, node_modules or dot-path entry; the
\* promise is fulfilled only once "end" was emitted, with the accepted
\* source entries of the whole archive, and resolve and reject are called at
\* most once altogether, also after a stream failed to open.
ExtractZipOneAtATime ==
    /\ zipfile.requested + Cardinality(zipfile.streams) <= 1
    /\ sourceFiles = AcceptedSources(zipfile.entries, HandledEntries)
    /\ \A i \in 1..Len(sourceFiles) : ~IsExcludedName(sourceFiles[i].name)
    /\ (promise.state = "fulfilled") =>
          /\ pc = "ended"
          /\ zipfile.position = Len(zipfile.entries)
          /\ zipfile.streams = {}
          /\ promise.value.sourceFiles = AcceptedSources(zipfile.entries, Len(zipfile.entries))
    /\ (pc = "ended") => (promise.state = "fulfilled")
    /\ promise.calls <= 1

\* an archive of a source file, a skipped entry and a second source file
\* was extracted to the end
ExtractZipWitness ==
    /\ promise.state = "fulfilled"
    /\ Len(zipfile.entries) = 3
    /\ isSkippedPath(zipfile.entries[2])
    /\ Len(promise.value.sourceFiles) = 2
    /\ promise.value.sourceFiles[1].name = zipfile.entries[1].fileName
    /\ promise.value.sourceFiles[2].name = zipfile.entries[3].fileName
    /\ promise.value.sourceFiles[1].name # promise.value.sourceFiles[2].name

====
